---- MODULE Spec2Model ----
(***************************************************************************)
(* Hybrid PDF text extraction (native text + OCR fallback) of              *)
(* src/src/modules/pdf/pdf-extract.service.js, modelled as a state machine *)
(* of one run of extractPdfToDocxBuffer.                                   *)
(*                                                                         *)
(* A text is a sequence of one-character strings.  The character "nbsp"    *)
(* stands for U+00A0.  External collaborators (the file system, pdf.js,    *)
(* pdftoppm, sharp, tesseract, the docx packer) are nondeterministic: each *)
(* call either succeeds or fails.                                          *)
(***************************************************************************)
EXTENDS Integers, Sequences, FiniteSets, TLC

(***************************************************************************)
(* Bounds of the model.                                                    *)
(***************************************************************************)
MaxPages == 2
MaxTextLen == 2

(***************************************************************************)
(* Characters and JavaScript string helpers.                               *)
(***************************************************************************)
\* the characters the JavaScript class \s (and String.prototype.trim) matches
Whitespace == {" ", "\t", "\n", "\r", "nbsp"}

\* the characters of /[A-Za-zͰ-Ͽ0-9]/ that occur in the model
AlphaNumeric == {"a", "b", "c", "d", "e", "1"}

\* the subsequence of s at the indexes in keep
SelectIdx(s, keep) ==
    LET F[i \in 0..Len(s)] ==
            IF i = 0 THEN << >>
            ELSE IF i \in keep THEN Append(F[i - 1], s[i]) ELSE F[i - 1]
    IN  F[Len(s)]

\* value.replace(/\r\n/g, '\n')
RECURSIVE ReplaceCrLf(_)
ReplaceCrLf(s) ==
    IF s = << >> THEN << >>
    ELSE IF Len(s) >= 2 /\ s[1] = "\r" /\ s[2] = "\n"
         THEN <<"\n">> \o ReplaceCrLf(SubSeq(s, 3, Len(s)))
         ELSE <<s[1]>> \o ReplaceCrLf(Tail(s))

\* value.replace(/<from>/g, to) for a single character
ReplaceChar(s, from, to) == [i \in 1..Len(s) |-> IF s[i] = from THEN to ELSE s[i]]

\* value.replace(/[ \t]+/g, ' ')
CollapseBlanks(s) ==
    LET blank(i) == s[i] \in {" ", "\t"}
        t == [i \in 1..Len(s) |-> IF blank(i) THEN " " ELSE s[i]]
    IN  SelectIdx(t, {i \in 1..Len(s) : ~blank(i) \/ i = 1 \/ ~blank(i - 1)})

\* value.replace(/\n{3,}/g, '\n\n')
CollapseNewlines(s) ==
    SelectIdx(s, {i \in 1..Len(s) :
                    ~(i >= 3 /\ s[i] = "\n" /\ s[i - 1] = "\n" /\ s[i - 2] = "\n")})

\* String.prototype.trim
Trim(s) ==
    LET solid == {i \in 1..Len(s) : s[i] \notin Whitespace}
    IN  IF solid = {} THEN << >>
        ELSE SubSeq(s, CHOOSE i \in solid : \A j \in solid : i <= j,
                       CHOOSE i \in solid : \A j \in solid : i >= j)

normalizeWhitespace(value) ==
    Trim(CollapseNewlines(CollapseBlanks(
        ReplaceChar(ReplaceChar(ReplaceCrLf(value), "\r", "\n"), "nbsp", " "))))

\* value.replace(/\s/g, '').length
CompactLength(s) == Cardinality({i \in 1..Len(s) : s[i] \notin Whitespace})

\* haystack.includes(needle)
Includes(haystack, needle) ==
    \E k \in 0..(Len(haystack) - Len(needle)) :
        \A i \in 1..Len(needle) : haystack[k + i] = needle[i]

\* chunks.join(' ')
RECURSIVE Join(_)
Join(chunks) ==
    IF chunks = << >> THEN << >>
    ELSE IF Len(chunks) = 1 THEN chunks[1]
    ELSE chunks[1] \o <<" ">> \o Join(Tail(chunks))

\* the text content of a page is a sequence of items [str, hasEOL]
RECURSIVE NativeChunks(_)
NativeChunks(items) ==
    IF items = << >> THEN << >>
    ELSE LET token == Trim(items[1].str)
         IN  (IF token # << >> THEN <<token>> ELSE << >>)
             \o (IF items[1].hasEOL THEN << <<"\n">> >> ELSE << >>)
             \o NativeChunks(Tail(items))

normalizeNativeTextContent(textContent) == normalizeWhitespace(Join(NativeChunks(textContent)))

(***************************************************************************)
(* Candidate scoring.                                                      *)
(***************************************************************************)
\* the score with two points for a word instead of three
scoreOcrCandidateTwoPerWord(text) ==
    LET normalized == normalizeWhitespace(text)
        compactLength == CompactLength(normalized)
        alphaNumericLength ==
            Cardinality({i \in 1..Len(normalized) : normalized[i] \in AlphaNumeric})
        wordCount ==
            Cardinality({i \in 1..Len(normalized) :
                            /\ normalized[i] \notin Whitespace
                            /\ (i = 1 \/ normalized[i - 1] \in Whitespace)})
        lowRatio == IF compactLength > 0
                    THEN 100 * alphaNumericLength < 45 * compactLength
                    ELSE TRUE
        penalty == IF lowRatio THEN 40 ELSE 0
    IN  compactLength + wordCount * 2 - penalty

scoreOcrCandidate(text) ==
    LET normalized == normalizeWhitespace(text)
        compactLength == CompactLength(normalized)
        alphaNumericLength ==
            Cardinality({i \in 1..Len(normalized) : normalized[i] \in AlphaNumeric})
        \* normalized.split(/\s+/).filter(Boolean).length: the maximal runs of
        \* non-whitespace characters
        wordCount ==
            Cardinality({i \in 1..Len(normalized) :
                            /\ normalized[i] \notin Whitespace
                            /\ (i = 1 \/ normalized[i - 1] \in Whitespace)})
        \* usefulRatio < 0.45, with usefulRatio = 0 for an empty text
        lowRatio == IF compactLength > 0
                    THEN 100 * alphaNumericLength < 45 * compactLength
                    ELSE TRUE
        penalty == IF lowRatio THEN 40 ELSE 0
    IN  compactLength + wordCount * 3 - penalty

\* an optional value is a sequence of at most one element (null or undefined: empty)
None == << >>
Some(x) == <<x>>

\* the sort with the comparison reversed: ascending scores
RECURSIVE SortByScoreAsc(_)
SortByScoreAsc(candidates) ==
    IF candidates = << >> THEN << >>
    ELSE LET rest == SortByScoreAsc(SubSeq(candidates, 1, Len(candidates) - 1))
             last == candidates[Len(candidates)]
             ahead == {i \in 1..Len(rest) : rest[i].score <= last.score}
             k == Cardinality(ahead)
         IN  SubSeq(rest, 1, k) \o <<last>> \o SubSeq(rest, k + 1, Len(rest))

\* the candidates in the order of array.sort((left, right) => right.score - left.score),
\* which is stable: a candidate moves in front of the ones with a strictly lower score
RECURSIVE SortByScoreDesc(_)
SortByScoreDesc(candidates) ==
    IF candidates = << >> THEN << >>
    ELSE LET rest == SortByScoreDesc(SubSeq(candidates, 1, Len(candidates) - 1))
             last == candidates[Len(candidates)]
             ahead == {i \in 1..Len(rest) : rest[i].score >= last.score}
             k == Cardinality(ahead)
         IN  SubSeq(rest, 1, k) \o <<last>> \o SubSeq(rest, k + 1, Len(rest))

\* Math.round(confidence * 1.5) for an integer confidence
RoundTimesOneAndHalf(confidence) == (3 * confidence + 1) \div 2

\* the evaluation without the confidence boost
evaluateCandidateWithoutBoost(candidate) ==
    [text |-> candidate.text, confidence |-> candidate.confidence,
     score |-> scoreOcrCandidate(candidate.text)]

\* candidate.confidence is null, or a mean confidence (0 is falsy)
evaluateCandidate(candidate) ==
    LET qualityScore == scoreOcrCandidate(candidate.text)
        confidenceBoost ==
            IF candidate.confidence # None /\ candidate.confidence[1] # 0
            THEN RoundTimesOneAndHalf(candidate.confidence[1])
            ELSE 0
    IN  [text |-> candidate.text, confidence |-> candidate.confidence,
         score |-> qualityScore + confidenceBoost]

\* the decision with the threshold of quality used for maximum too
resolveNeedsExtraOcrPassesOneThreshold(processingProfile, score) ==
    IF processingProfile = "fast" THEN FALSE
    ELSE IF processingProfile \in {"quality", "maximum"} THEN score < 140
    ELSE score < 240

resolveNeedsExtraOcrPasses(processingProfile, score) ==
    IF processingProfile = "fast" THEN FALSE
    ELSE IF processingProfile = "quality" THEN score < 140
    ELSE IF processingProfile = "maximum" THEN score < 180
    ELSE score < 240

\* the four variants for every profile
VariantLabelsAll(processingProfile) == <<"raw", "normalized", "threshold", "sharpened">>

\* the labels of the variants createOcrVariants returns, in order
VariantLabels(processingProfile) ==
    <<"raw", "normalized">>
    \o (IF processingProfile \in {"maximum", "ultra"} THEN <<"threshold">> ELSE << >>)
    \o (IF processingProfile = "ultra" THEN <<"sharpened">> ELSE << >>)

\* the merge whose concatenation is not normalized
combineNativeAndOcrTextUnnormalized(nativeText, ocrText) ==
    IF nativeText = << >> /\ ocrText = << >> THEN << >>
    ELSE IF nativeText = << >> THEN ocrText
    ELSE IF ocrText = << >> THEN nativeText
    ELSE IF Includes(ocrText, nativeText) THEN ocrText
    ELSE IF Includes(nativeText, ocrText) THEN nativeText
    ELSE nativeText \o <<"\n", "\n">> \o ocrText

\* the merge without the two substring cases
combineNativeAndOcrTextAlwaysJoined(nativeText, ocrText) ==
    IF nativeText = << >> /\ ocrText = << >> THEN << >>
    ELSE IF nativeText = << >> THEN ocrText
    ELSE IF ocrText = << >> THEN nativeText
    ELSE normalizeWhitespace(nativeText \o <<"\n", "\n">> \o ocrText)

\* the merge with the results of the two one-sided cases swapped
combineNativeAndOcrTextSwapped(nativeText, ocrText) ==
    IF nativeText = << >> /\ ocrText = << >> THEN << >>
    ELSE IF nativeText = << >> THEN nativeText
    ELSE IF ocrText = << >> THEN ocrText
    ELSE IF Includes(ocrText, nativeText) THEN ocrText
    ELSE IF Includes(nativeText, ocrText) THEN nativeText
    ELSE normalizeWhitespace(nativeText \o <<"\n", "\n">> \o ocrText)

combineNativeAndOcrText(nativeText, ocrText) ==
    IF nativeText = << >> /\ ocrText = << >> THEN << >>
    ELSE IF nativeText = << >> THEN ocrText
    ELSE IF ocrText = << >> THEN nativeText
    ELSE IF Includes(ocrText, nativeText) THEN ocrText
    ELSE IF Includes(nativeText, ocrText) THEN nativeText
    ELSE normalizeWhitespace(nativeText \o <<"\n", "\n">> \o ocrText)

(***************************************************************************)
(* Option normalisation.                                                   *)
(***************************************************************************)
\* String.prototype.toLowerCase (with trim, for a language code) on the words of the model
ToLowerCase(word) ==
    CASE word = "FAST" -> "fast"
      [] word = " ENG " -> "eng"
      [] OTHER -> word

ALLOWED_OCR_MODES == {"hybrid"}
ALLOWED_LANGUAGES == {"eng", "ell"}
ALLOWED_PROCESSING_PROFILES == {"fast", "quality", "maximum", "ultra"}

DEFAULT_EXTRACT_OPTIONS ==
    [ocrMode |-> "hybrid",
     languages |-> <<"eng", "ell">>,
     processingProfile |-> "ultra",
     includePageBreaks |-> TRUE,
     includeConfidenceMarkers |-> FALSE,
     minNativeCharsPerPageByProfile |->
        [p \in ALLOWED_PROCESSING_PROFILES |->
            CASE p = "fast" -> 24 [] p = "quality" -> 48 [] p = "maximum" -> 72 [] OTHER -> 96]]

\* Number.parseInt(value, 10) of a number given in tenths (127 stands for 12.7): the
\* digits before the decimal point
ParseInt(tenths) == IF tenths >= 0 THEN tenths \div 10 ELSE -((-tenths) \div 10)

\* [...new Set(normalized)]: the first occurrence of every element, in order
Dedupe(s) == SelectIdx(s, {i \in 1..Len(s) : \A j \in 1..(i - 1) : s[j] # s[i]})

\* the result of a call that may throw: [ok |-> TRUE, value |-> v] or [ok |-> FALSE, code |-> c]
Returns(v) == [ok |-> TRUE, value |-> v, code |-> ""]
Throws(code) == [ok |-> FALSE, value |-> None, code |-> code]

normalizeLanguages(rawLanguages) ==
    IF rawLanguages = None THEN Returns(DEFAULT_EXTRACT_OPTIONS.languages)
    ELSE IF rawLanguages[1] = << >> THEN Throws("INVALID_EXTRACT_OPTIONS")
    ELSE LET normalized == [i \in 1..Len(rawLanguages[1]) |-> ToLowerCase(rawLanguages[1][i])]
         IN  IF \E i \in 1..Len(normalized) : normalized[i] \notin ALLOWED_LANGUAGES
             THEN Throws("INVALID_EXTRACT_OPTIONS")
             ELSE Returns(Dedupe(normalized))

\* extractOptions is a record of optional fields; isObject is false for null, an
\* array or a primitive value; minNativeCharsPerPage is a number in tenths
normalizeExtractOptions(extractOptions) ==
    IF ~extractOptions.isObject THEN Throws("INVALID_EXTRACT_OPTIONS")
    ELSE
    LET ocrMode == ToLowerCase(IF extractOptions.ocrMode # None
                               THEN extractOptions.ocrMode[1]
                               ELSE DEFAULT_EXTRACT_OPTIONS.ocrMode)
        includePageBreaks ==
            IF extractOptions.includePageBreaks = None
            THEN DEFAULT_EXTRACT_OPTIONS.includePageBreaks
            ELSE extractOptions.includePageBreaks[1]
        includeConfidenceMarkers ==
            IF extractOptions.includeConfidenceMarkers = None
            THEN DEFAULT_EXTRACT_OPTIONS.includeConfidenceMarkers
            ELSE extractOptions.includeConfidenceMarkers[1]
        processingProfile == ToLowerCase(IF extractOptions.processingProfile # None
                                         THEN extractOptions.processingProfile[1]
                                         ELSE DEFAULT_EXTRACT_OPTIONS.processingProfile)
        languages == normalizeLanguages(extractOptions.languages)
    IN  IF ocrMode \notin ALLOWED_OCR_MODES THEN Throws("INVALID_EXTRACT_OPTIONS")
        ELSE IF processingProfile \notin ALLOWED_PROCESSING_PROFILES
             THEN Throws("INVALID_EXTRACT_OPTIONS")
        ELSE
        LET minNativeCharsPerPage ==
                IF extractOptions.minNativeCharsPerPage # None
                THEN ParseInt(extractOptions.minNativeCharsPerPage[1])
                ELSE DEFAULT_EXTRACT_OPTIONS.minNativeCharsPerPageByProfile[processingProfile]
        IN  IF minNativeCharsPerPage < 0 \/ minNativeCharsPerPage > 5000
            THEN Throws("INVALID_EXTRACT_OPTIONS")
            ELSE IF ~languages.ok THEN languages
            ELSE Returns([ocrMode |-> ocrMode,
                          languages |-> languages.value,
                          processingProfile |-> processingProfile,
                          includePageBreaks |-> includePageBreaks,
                          includeConfidenceMarkers |-> includeConfidenceMarkers,
                          minNativeCharsPerPage |-> minNativeCharsPerPage])

(***************************************************************************)
(* Document assembly.                                                      *)
(***************************************************************************)
\* normalized.split(/\n\n+/)
RECURSIVE SplitBlocks(_)
SplitBlocks(s) ==
    LET breaks == {i \in 1..(Len(s) - 1) : s[i] = "\n" /\ s[i + 1] = "\n"}
    IN  IF breaks = {} THEN <<s>>
        ELSE LET first == CHOOSE i \in breaks : \A j \in breaks : i <= j
                 after == {i \in (first + 1)..Len(s) : s[i] # "\n"}
                 next == IF after = {} THEN Len(s) + 1
                         ELSE CHOOSE i \in after : \A j \in after : i <= j
             IN  <<SubSeq(s, 1, first - 1)>> \o SplitBlocks(SubSeq(s, next, Len(s)))

\* a document element: its kind, the page it belongs to (0: the title section), its text
Element(kind, pageNumber, text) == [kind |-> kind, pageNumber |-> pageNumber, text |-> text]

\* the paragraphs of a page without the fallback paragraph of an empty page
createPageParagraphsNoFallback(pageNumber, text) ==
    LET normalized == normalizeWhitespace(text)
        split == SplitBlocks(normalized)
        trimmed == [i \in 1..Len(split) |-> Trim(split[i])]
        blocks == SelectIdx(trimmed, {i \in 1..Len(trimmed) : trimmed[i] # << >>})
    IN  [i \in 1..Len(blocks) |-> Element("text", pageNumber, blocks[i])]

createPageParagraphs(pageNumber, text) ==
    LET normalized == normalizeWhitespace(text)
        split == SplitBlocks(normalized)
        trimmed == [i \in 1..Len(split) |-> Trim(split[i])]
        blocks == SelectIdx(trimmed, {i \in 1..Len(trimmed) : trimmed[i] # << >>})
    IN  IF normalized = << >> \/ blocks = << >>
        THEN <<Element("fallback", pageNumber, << >>)>>
        ELSE [i \in 1..Len(blocks) |-> Element("text", pageNumber, blocks[i])]

\* the children of the document section createDocxBufferFromPages serializes
RECURSIVE PageSections(_, _, _, _)
PageSections(pages, index, includePageBreaks, includeConfidenceMarkers) ==
    IF index > Len(pages) THEN << >>
    ELSE LET page == pages[index]
         IN  (IF index > 1 /\ includePageBreaks
              THEN <<Element("pageBreak", page.pageNumber, << >>)>> ELSE << >>)
             \o <<Element("heading", page.pageNumber, << >>)>>
             \o (IF includeConfidenceMarkers /\ page.usedOcrFallback
                 THEN <<Element("marker", page.pageNumber, << >>)>> ELSE << >>)
             \o createPageParagraphs(page.pageNumber, page.text)
             \o PageSections(pages, index + 1, includePageBreaks, includeConfidenceMarkers)

DocxChildren(pages, includePageBreaks, includeConfidenceMarkers) ==
    <<Element("title", 0, << >>), Element("source", 0, << >>), Element("generated", 0, << >>)>>
    \o PageSections(pages, 1, includePageBreaks, includeConfidenceMarkers)

(***************************************************************************)
(* The inputs of a run and the behaviour of the external collaborators.    *)
(***************************************************************************)
\* the file argument: missing (not an object), an empty upload, or a PDF upload
Files == {"missing", "empty", "pdf"}

Payload(processingProfile, minNativeCharsPerPage, languages, includePageBreaks, includeConfidenceMarkers) ==
    [isObject |-> TRUE,
     ocrMode |-> None,
     languages |-> languages,
     processingProfile |-> processingProfile,
     includePageBreaks |-> includePageBreaks,
     includeConfidenceMarkers |-> includeConfidenceMarkers,
     minNativeCharsPerPage |-> minNativeCharsPerPage]

\* the extractOptions arguments of the model
ExtractOptionsInputs ==
    {[Payload(None, None, None, None, None) EXCEPT !.isObject = FALSE]}
    \cup {Payload(p, None, None, None, None) :
            p \in {None, Some("quality"), Some("maximum"), Some("ultra"), Some("bogus")}}
    \cup {Payload(Some("quality"), Some(30), None, None, None),
          Payload(Some("maximum"), Some(0), None, None, None)}
    \cup {Payload(Some("FAST"), None, Some(<<" ENG ", "eng">>), Some(FALSE), Some(TRUE)),
          Payload(Some("fast"), Some(30), None, None, Some(TRUE)),
          Payload(Some("fast"), Some(50010), None, None, None),
          Payload(Some("fast"), None, Some(<< >>), None, None),
          Payload(Some("fast"), None, Some(<<"fra">>), None, None),
          [Payload(None, None, None, None, None) EXCEPT !.ocrMode = Some("native")]}

Text(str, hasEOL) == [str |-> str, hasEOL |-> hasEOL]

\* the text contents page.getTextContent() may deliver: no text layer (a scanned
\* page), and a sparse text layer of three non-whitespace characters
PageContents ==
    {<< >>,
     <<Text(<<"a", "b">>, TRUE), Text(<<" ", "c", " ">>, FALSE)>>}

RECURSIVE Words(_)
\* n one-letter words on a line
Words(n) == IF n = 0 THEN <<"\n">> ELSE IF n = 1 THEN <<"a", "\n">> ELSE <<"a", " ">> \o Words(n - 1)

\* what tesseract reads: the raw text of the output file of the text run, and of the
\* tsv probe its mean word confidence (None when the table has no word) and whether
\* the probe runs through ("ok") or fails ("failed")
Reading(raw, confidence) == [raw |-> raw, confidence |-> confidence, probe |-> "ok"]

ProbeFailed(reading) == [reading EXCEPT !.probe = "failed"]

LowReading == Reading(<<"a", "b", "\n">>, None)
MidReading == Reading(<<"a", " ", "b", "\n">>, Some(100))
HighReading == Reading(Words(8), Some(100))
TopReading == Reading(Words(23), Some(100))
MidReadingUnprobed == ProbeFailed(MidReading)

\* what tesseract may read from the image of a page, by page segmentation mode
\* (3 page layout, 6 uniform block, 11 sparse text, 4 single column)
Image(layout, block, sparse, column) ==
    [psm \in {3, 6, 11, 4} |->
        CASE psm = 3 -> layout [] psm = 6 -> block [] psm = 11 -> sparse [] OTHER -> column]

PageImages ==
    {Image({LowReading, TopReading}, {LowReading}, {LowReading, TopReading}, {LowReading}),
     Image({LowReading, MidReading}, {LowReading, MidReadingUnprobed}, {LowReading},
           {LowReading}),
     Image({HighReading, TopReading}, {HighReading}, {LowReading}, {LowReading, TopReading})}

NoImage == Image({}, {}, {}, {})

\* the outcomes of an external process whose output file is read afterwards
ProcessOutcomes == {"ok", "exit", "missing"}

\* error codes of ApiError; the other errors (of node:fs, pdf.js, sharp) carry none
ApiErrorCodes ==
    {"INVALID_INPUT", "EMPTY_FILE", "OCR_RUNTIME_MISSING", "INVALID_EXTRACT_OPTIONS",
     "PDF_PARSE_FAILED", "OCR_FAILED", "DOCX_GENERATION_FAILED"}

(***************************************************************************)
(* The state of one run of extractPdfToDocxBuffer.                         *)
(***************************************************************************)
VARIABLES
    pc,                 \* the position of the run
    options,            \* None, or Some(the normalized options)
    tempDirectory,      \* "none", "exists" or "removed"
    tempFiles,          \* the names of the files in the temporary directory
    pdfDocument,        \* "none", "open" or "destroyed": the pdf.js document handle
    totalPages,
    pageNumber,
    textContent,        \* of the current page
    nativeText,
    shouldRunOcr,
    ocrText,
    pageImage,          \* what tesseract can read from the rasterized page
    variants,           \* the labels of the variants of the current page
    variantIndex,       \* position of the loop over the variants
    baseCandidates,
    intensiveCandidates,
    bestCandidate,      \* None or Some(candidate)
    pages,              \* the PageResults
    progressLog,        \* the progress values handed to onProgress
    completion,         \* how the try block ended, while the finally block runs
    result,             \* what the caller gets
    invocations,        \* history: the external processes run so far, in order
    request,            \* history: None, or Some(the file and the installed commands)
    callback,           \* history: "none", or how onProgress ended in the last step
    probe,              \* history: "none", or how the tsv probe of the last step ended
    tasks,              \* the Map of the task progress store: None or Some(task) by id
    httpRequests,       \* the extract-to-docx requests of the server, by request
    polled              \* history: None, or Some(what the poll of the last step got)

vars == <<pc, options, tempDirectory, tempFiles, pdfDocument, totalPages, pageNumber,
          textContent, nativeText, shouldRunOcr, ocrText, pageImage, variants,
          variantIndex, baseCandidates, intensiveCandidates, bestCandidate, pages,
          progressLog, completion, result, invocations, request, callback, probe,
          tasks, httpRequests, polled>>

pageVars == <<textContent, nativeText, shouldRunOcr, ocrText>>
ocrVars == <<pageImage, variants, variantIndex, baseCandidates, intensiveCandidates,
             bestCandidate>>
fsVars == <<tempDirectory, tempFiles>>
storeVars == <<tasks, httpRequests, polled>>

\* the task ids clients supply, and the requests of the model
TaskIds == {"t1", "t2"}
Requests == {"A", "B"}

\* a request the server has not received yet
NotReceived == [pc |-> "idle", taskId |-> "", reported |-> 0, error |-> None]

\* no task in the store and no request at the server
StoreIsEmpty ==
    /\ tasks = [id \in TaskIds |-> None]
    /\ httpRequests = [r \in Requests |-> NotReceived]
    /\ polled = None

Pending == [kind |-> "pending", code |-> "", docx |-> << >>]
Raised(code) == [kind |-> "raised", code |-> code, docx |-> << >>]
Returned(docx) == [kind |-> "returned", code |-> "", docx |-> docx]

Invocation(command, page, variant, psm, outcome) ==
    [command |-> command, pageNumber |-> page, variant |-> variant, psm |-> psm,
     outcome |-> outcome]

Init ==
    /\ pc = "start"
    /\ options = None
    /\ tempDirectory = "none"
    /\ tempFiles = {}
    /\ pdfDocument = "none"
    /\ totalPages = 0
    /\ pageNumber = 0
    /\ textContent = << >>
    /\ nativeText = << >>
    /\ shouldRunOcr = FALSE
    /\ ocrText = << >>
    /\ pageImage = NoImage
    /\ variants = << >>
    /\ variantIndex = 0
    /\ baseCandidates = << >>
    /\ intensiveCandidates = << >>
    /\ bestCandidate = None
    /\ pages = << >>
    /\ progressLog = << >>
    /\ completion = Pending
    /\ result = Pending
    /\ invocations = << >>
    /\ request = None
    /\ callback = "none"
    /\ probe = "none"
    /\ StoreIsEmpty

\* safeProgressUpdate(onProgress, payload): the callback gets the payload, and what it
\* throws is swallowed
safeProgressUpdate(log, progress) == Append(log, progress)

\* a callback that throws, without the try and catch around its call
CallbackEscapesUnguarded(threw) == threw

\* try { onProgress(payload) } catch { }: nothing the callback throws leaves
\* safeProgressUpdate
CallbackEscapes(threw) == FALSE

CallbackOutcome(threw) == IF threw THEN "threw" ELSE "returned"

\* a step without a progress update and without a confidence probe
Unobserved ==
    /\ callback' = "none"
    /\ probe' = "none"
    /\ UNCHANGED <<request, storeVars>>

\* the locals of the loop body and of runOcrOnImage go out of scope
ClearPageLocals ==
    /\ textContent' = << >>
    /\ nativeText' = << >>
    /\ shouldRunOcr' = FALSE
    /\ ocrText' = << >>
    /\ pageImage' = NoImage
    /\ variants' = << >>
    /\ variantIndex' = 0
    /\ baseCandidates' = << >>
    /\ intensiveCandidates' = << >>
    /\ bestCandidate' = None

\* the exception swallowed and the failing step taken again
ThrowInTryRetrying(code) ==
    /\ pc' = pc
    /\ UNCHANGED <<completion, pages, pageVars, ocrVars>>
    /\ UNCHANGED <<options, pdfDocument, totalPages, pageNumber, progressLog, result>>

\* an exception leaves the try block: the finally block runs with it pending
ThrowInTry(code) ==
    /\ pc' = "finally"
    /\ completion' = Raised(code)
    /\ pages' = << >>
    /\ ClearPageLocals
    /\ UNCHANGED <<options, pdfDocument, totalPages, pageNumber, progressLog, result>>

\* an exception before the try block reaches the caller at once
RaiseAtOnce(code) ==
    /\ pc' = "done"
    /\ result' = Raised(code)
    /\ UNCHANGED <<options, fsVars, pdfDocument, totalPages, pageNumber, pageVars, ocrVars,
                   pages, progressLog, completion, invocations>>

RUNTIME_DEPS == {"tesseract", "pdftoppm"}

\* the inspection satisfied with any one of the commands
inspectPdfExtractRuntimeDependenciesAnyOne(installed) ==
    [available |-> installed # {}, missing |-> RUNTIME_DEPS \ installed]

\* installed: the commands whose version probe exits with status 0
inspectPdfExtractRuntimeDependencies(installed) ==
    LET missing == RUNTIME_DEPS \ installed
    IN  [available |-> missing = {}, missing |-> missing]

\* input validation, runtime probe, option normalisation, first progress update
Start ==
    /\ pc = "start"
    /\ probe' = "none"
    /\ UNCHANGED storeVars
    /\ \E file \in Files, installed \in SUBSET RUNTIME_DEPS,
          extractOptions \in ExtractOptionsInputs, threw \in BOOLEAN :
          LET runtime == inspectPdfExtractRuntimeDependencies(installed)
              normalized == normalizeExtractOptions(extractOptions)
              rejected == file # "pdf" \/ ~runtime.available \/ ~normalized.ok
          IN  /\ request' = Some([file |-> file, installed |-> installed])
              /\ callback' = IF rejected THEN "none" ELSE CallbackOutcome(threw)
              /\ IF file = "missing" THEN RaiseAtOnce("INVALID_INPUT")
                 ELSE IF file = "empty" THEN RaiseAtOnce("EMPTY_FILE")
                 ELSE IF ~runtime.available THEN RaiseAtOnce("OCR_RUNTIME_MISSING")
                 ELSE IF ~normalized.ok THEN RaiseAtOnce(normalized.code)
                 ELSE IF CallbackEscapes(threw) THEN RaiseAtOnce("Error:callback")
                 ELSE /\ options' = Some(normalized.value)
                      /\ progressLog' = safeProgressUpdate(progressLog, 15)
                      /\ pc' = "mkdtemp"
                      /\ UNCHANGED <<fsVars, pdfDocument, totalPages, pageNumber, pageVars,
                                     ocrVars, pages, completion, result, invocations>>

\* await mkdtemp(...)
MakeTempDirectory ==
    /\ pc = "mkdtemp"
    /\ Unobserved
    /\ \E created \in BOOLEAN :
          IF created
          THEN /\ tempDirectory' = "exists"
               /\ pc' = "writeFile"
               /\ UNCHANGED <<options, tempFiles, pdfDocument, totalPages, pageNumber,
                              pageVars, ocrVars, pages, progressLog, completion, result,
                              invocations>>
          ELSE RaiseAtOnce("Error:fs")

File(kind, page, variant, psm) ==
    [kind |-> kind, pageNumber |-> page, variant |-> variant, psm |-> psm]

\* await writeFile(pdfPath, file.buffer)
WritePdfCopy ==
    /\ pc = "writeFile"
    /\ Unobserved
    /\ \E written \in BOOLEAN :
          IF written
          THEN /\ tempFiles' = tempFiles \cup {File("pdf", 0, "", 0)}
               /\ pc' = "parse"
               /\ UNCHANGED <<options, tempDirectory, pdfDocument, totalPages, pageNumber,
                              pageVars, ocrVars, pages, progressLog, completion, result,
                              invocations>>
          ELSE ThrowInTry("Error:fs") /\ UNCHANGED <<fsVars, invocations>>

\* await getDocument(...).promise, the page count check, the second progress update
ParsePdf ==
    /\ pc = "parse"
    /\ probe' = "none"
    /\ UNCHANGED <<request, storeVars>>
    /\ \E readable \in BOOLEAN, numPages \in 0..MaxPages, threw \in BOOLEAN :
          IF ~readable
          THEN /\ ThrowInTry("PDF_PARSE_FAILED")
               /\ callback' = "none"
               /\ UNCHANGED <<fsVars, invocations>>
          ELSE IF numPages < 1
          THEN /\ pc' = "finally"
               /\ callback' = "none"
               /\ completion' = Raised("PDF_PARSE_FAILED")
               /\ pdfDocument' = "open"
               /\ pages' = << >>
               /\ ClearPageLocals
               /\ UNCHANGED <<options, fsVars, totalPages, pageNumber, progressLog, result,
                              invocations>>
          ELSE IF CallbackEscapes(threw)
          THEN /\ pc' = "finally"
               /\ callback' = CallbackOutcome(threw)
               /\ completion' = Raised("Error:callback")
               /\ pdfDocument' = "open"
               /\ pages' = << >>
               /\ ClearPageLocals
               /\ UNCHANGED <<options, fsVars, totalPages, pageNumber, progressLog, result,
                              invocations>>
          ELSE /\ pdfDocument' = "open"
               /\ callback' = CallbackOutcome(threw)
               /\ totalPages' = numPages
               /\ progressLog' = safeProgressUpdate(progressLog, 20)
               /\ pages' = << >>
               /\ pageNumber' = 1
               /\ pc' = "getPage"
               /\ UNCHANGED <<options, fsVars, pageVars, ocrVars, completion, result,
                              invocations>>

\* the decision with the comparison off by one
ShouldRunOcrInclusive(nativeCharCount, minNativeCharsPerPage) ==
    nativeCharCount <= minNativeCharsPerPage

\* shouldRunOcr
ShouldRunOcr(nativeCharCount, minNativeCharsPerPage) == nativeCharCount < minNativeCharsPerPage

\* await pdfDocument.getPage(pageNumber), await page.getTextContent(), the OCR decision
ReadPageText ==
    /\ pc = "getPage"
    /\ Unobserved
    /\ \E read \in BOOLEAN, content \in PageContents :
          IF ~read
          THEN ThrowInTry("Error:pdfjs") /\ UNCHANGED <<fsVars, invocations>>
          ELSE LET text == normalizeNativeTextContent(content)
                   nativeCharCount == CompactLength(text)
                   needsOcr == ShouldRunOcr(nativeCharCount, options[1].minNativeCharsPerPage)
               IN  /\ textContent' = content
                   /\ nativeText' = text
                   /\ shouldRunOcr' = needsOcr
                   /\ ocrText' = << >>
                   /\ pc' = IF needsOcr THEN "render" ELSE "merge"
                   /\ UNCHANGED <<options, fsVars, pdfDocument, totalPages, pageNumber,
                                  ocrVars, pages, progressLog, completion, result,
                                  invocations>>

\* the rasterization of the current page together with that of the next page
renderPdfPageToPngAhead ==
    /\ pc = "render"
    /\ Unobserved
    /\ \E outcome \in ProcessOutcomes, image \in PageImages :
          /\ invocations' = invocations
                \o <<Invocation("pdftoppm", pageNumber, "", 0, outcome),
                     Invocation("pdftoppm", pageNumber + 1, "", 0, outcome)>>
          /\ IF outcome = "ok"
             THEN /\ tempFiles' = tempFiles \cup {File("png", pageNumber, "raw", 0)}
                  /\ pageImage' = image
                  /\ pc' = "variants"
                  /\ UNCHANGED <<options, tempDirectory, pdfDocument, totalPages,
                                 pageNumber, pageVars, variants, variantIndex,
                                 baseCandidates, intensiveCandidates, bestCandidate, pages,
                                 progressLog, completion, result>>
             ELSE ThrowInTry("OCR_FAILED") /\ UNCHANGED fsVars

\* the rasterization with a failure that skips the page instead of raising
renderPdfPageToPngSkipping ==
    /\ pc = "render"
    /\ Unobserved
    /\ \E outcome \in ProcessOutcomes, image \in PageImages :
          /\ invocations' = Append(invocations,
                                    Invocation("pdftoppm", pageNumber, "", 0, outcome))
          /\ IF outcome = "ok"
             THEN /\ tempFiles' = tempFiles \cup {File("png", pageNumber, "raw", 0)}
                  /\ pageImage' = image
                  /\ pc' = "variants"
             ELSE /\ pc' = "merge"
                  /\ UNCHANGED <<tempFiles, pageImage>>
          /\ UNCHANGED <<options, tempDirectory, pdfDocument, totalPages,
                         pageNumber, pageVars, variants, variantIndex,
                         baseCandidates, intensiveCandidates, bestCandidate, pages,
                         progressLog, completion, result>>

\* await renderPdfPageToPng(...): pdftoppm, then the access check of its output
renderPdfPageToPng ==
    /\ pc = "render"
    /\ Unobserved
    /\ \E outcome \in ProcessOutcomes, image \in PageImages :
          /\ invocations' = Append(invocations,
                                    Invocation("pdftoppm", pageNumber, "", 0, outcome))
          /\ IF outcome = "ok"
             THEN /\ tempFiles' = tempFiles \cup {File("png", pageNumber, "raw", 0)}
                  /\ pageImage' = image
                  /\ pc' = "variants"
                  /\ UNCHANGED <<options, tempDirectory, pdfDocument, totalPages,
                                 pageNumber, pageVars, variants, variantIndex,
                                 baseCandidates, intensiveCandidates, bestCandidate, pages,
                                 progressLog, completion, result>>
             ELSE ThrowInTry("OCR_FAILED") /\ UNCHANGED fsVars

\* await createOcrVariants(...): one sharp pipeline per further variant; the raw
\* variant is the rasterized page itself
createOcrVariants ==
    /\ pc = "variants"
    /\ Unobserved
    /\ LET labels == VariantLabels(options[1].processingProfile)
       IN  \E written \in 1..Len(labels) :
              /\ tempFiles' = tempFiles
                    \cup {File("png", pageNumber, labels[i], 0) : i \in 2..written}
              /\ IF written = Len(labels)
                 THEN /\ variants' = labels
                      /\ variantIndex' = 1
                      /\ baseCandidates' = << >>
                      /\ pc' = "basePsm3"
                      /\ UNCHANGED <<options, tempDirectory, pdfDocument, totalPages,
                                     pageNumber, pageVars, pageImage, intensiveCandidates,
                                     bestCandidate, pages, progressLog, completion, result,
                                     invocations>>
                 ELSE ThrowInTry("Error:sharp") /\ UNCHANGED <<tempDirectory, invocations>>

\* the confidence of a reading used although its probe failed
ProbedConfidenceAnyway(reading) == reading.confidence

\* let confidence = null; try { ... confidence = parseTsvConfidence(...) } catch { }
ProbedConfidence(reading) == IF reading.probe = "ok" THEN reading.confidence ELSE None

\* the candidate runOcrPass returns for a reading, evaluated by the caller
PassCandidate(reading) ==
    evaluateCandidate([text |-> normalizeWhitespace(reading.raw),
                       confidence |-> ProbedConfidence(reading)])

\* await runOcrPass(...) on the current variant: tesseract, the read of its output
\* file, the confidence probe.  The caller continues with the candidate when ok.
runOcrPass(psm, outcome) ==
    /\ invocations' = Append(invocations,
          Invocation("tesseract", pageNumber, variants[variantIndex], psm, outcome))
    /\ IF outcome = "ok"
       THEN /\ tempFiles' = tempFiles
                  \cup {File("txt", pageNumber, variants[variantIndex], psm)}
            /\ UNCHANGED <<options, tempDirectory, pdfDocument, totalPages,
                           pageNumber, pageVars, pageImage, variants, bestCandidate,
                           pages, progressLog, completion, result>>
       ELSE ThrowInTry("OCR_FAILED") /\ UNCHANGED fsVars

\* the loop of the base phase over all the variants
NextBaseVariantAll ==
    IF variantIndex < Len(variants)
    THEN variantIndex' = variantIndex + 1 /\ pc' = "basePsm3"
    ELSE variantIndex' = variantIndex /\ pc' = "evaluate"

\* the loop over variants.slice(0, Math.min(2, variants.length)) moves on
NextBaseVariant ==
    IF variantIndex < (IF Len(variants) < 2 THEN Len(variants) ELSE 2)
    THEN variantIndex' = variantIndex + 1 /\ pc' = "basePsm3"
    ELSE variantIndex' = variantIndex /\ pc' = "evaluate"

AfterPageLayoutPass(candidate) ==
    /\ baseCandidates' = Append(baseCandidates, candidate)
    /\ IF options[1].processingProfile # "fast"
       THEN variantIndex' = variantIndex /\ pc' = "basePsm6"
       ELSE NextBaseVariant
    /\ UNCHANGED intensiveCandidates

\* the page-layout pass (psm 3) of the base phase
PageLayoutPass ==
    /\ pc = "basePsm3"
    /\ callback' = "none"
    /\ UNCHANGED <<request, storeVars>>
    /\ \E outcome \in ProcessOutcomes :
          /\ runOcrPass(3, outcome)
          /\ IF outcome = "ok"
             THEN \E reading \in pageImage[3] :
                     /\ AfterPageLayoutPass(PassCandidate(reading))
                     /\ probe' = reading.probe
             ELSE probe' = "none"

AfterUniformBlockPass(candidate) ==
    /\ baseCandidates' = Append(baseCandidates, candidate)
    /\ NextBaseVariant
    /\ UNCHANGED intensiveCandidates

\* the uniform-block pass (psm 6) of the base phase
UniformBlockPass ==
    /\ pc = "basePsm6"
    /\ callback' = "none"
    /\ UNCHANGED <<request, storeVars>>
    /\ \E outcome \in ProcessOutcomes :
          /\ runOcrPass(6, outcome)
          /\ IF outcome = "ok"
             THEN \E reading \in pageImage[6] :
                     /\ AfterUniformBlockPass(PassCandidate(reading))
                     /\ probe' = reading.probe
             ELSE probe' = "none"

\* the best base candidate, and the decision to accept it or to escalate
EvaluateBase ==
    /\ pc = "evaluate"
    /\ Unobserved
    /\ LET sorted == SortByScoreDesc(baseCandidates)
       IN  /\ baseCandidates' = sorted
           /\ IF sorted = << >>
              THEN /\ bestCandidate' = None
                   /\ ocrText' = << >>
                   /\ pc' = "merge"
                   /\ UNCHANGED <<variantIndex, intensiveCandidates>>
              ELSE /\ bestCandidate' = Some(sorted[1])
                   /\ IF ~resolveNeedsExtraOcrPasses(options[1].processingProfile,
                                                     sorted[1].score)
                      THEN /\ ocrText' = sorted[1].text
                           /\ pc' = "merge"
                           /\ UNCHANGED <<variantIndex, intensiveCandidates>>
                      ELSE /\ intensiveCandidates' = << >>
                           /\ variantIndex' = 1
                           /\ pc' = "sparsePsm11"
                           /\ UNCHANGED ocrText
    /\ UNCHANGED <<options, fsVars, pdfDocument, totalPages, pageNumber, textContent,
                   nativeText, shouldRunOcr, pageImage, variants, pages, progressLog,
                   completion, result, invocations>>

\* the loop of the intensive phase over the first two variants only
NextIntensiveVariantFirstTwo ==
    IF variantIndex < (IF Len(variants) < 2 THEN Len(variants) ELSE 2)
    THEN variantIndex' = variantIndex + 1 /\ pc' = "sparsePsm11"
    ELSE variantIndex' = variantIndex /\ pc' = "select"

\* the loop over all the variants moves on
NextIntensiveVariant ==
    IF variantIndex < Len(variants)
    THEN variantIndex' = variantIndex + 1 /\ pc' = "sparsePsm11"
    ELSE variantIndex' = variantIndex /\ pc' = "select"

AfterSparsePass(candidate) ==
    /\ intensiveCandidates' = Append(intensiveCandidates, candidate)
    /\ IF options[1].processingProfile = "ultra"
       THEN variantIndex' = variantIndex /\ pc' = "columnPsm4"
       ELSE NextIntensiveVariant
    /\ UNCHANGED baseCandidates

\* the sparse-text pass (psm 11) of the intensive phase
SparseTextPass ==
    /\ pc = "sparsePsm11"
    /\ callback' = "none"
    /\ UNCHANGED <<request, storeVars>>
    /\ \E outcome \in ProcessOutcomes :
          /\ runOcrPass(11, outcome)
          /\ IF outcome = "ok"
             THEN \E reading \in pageImage[11] :
                     /\ AfterSparsePass(PassCandidate(reading))
                     /\ probe' = reading.probe
             ELSE probe' = "none"

AfterSingleColumnPass(candidate) ==
    /\ intensiveCandidates' = Append(intensiveCandidates, candidate)
    /\ NextIntensiveVariant
    /\ UNCHANGED baseCandidates

\* the second pass of the intensive phase run as a sparse-text pass again
SingleColumnPassAsSparse ==
    /\ pc = "columnPsm4"
    /\ callback' = "none"
    /\ UNCHANGED <<request, storeVars>>
    /\ \E outcome \in ProcessOutcomes :
          /\ runOcrPass(11, outcome)
          /\ IF outcome = "ok"
             THEN \E reading \in pageImage[11] :
                     /\ AfterSingleColumnPass(PassCandidate(reading))
                     /\ probe' = reading.probe
             ELSE probe' = "none"

\* the single-column pass (psm 4) of the intensive phase
SingleColumnPass ==
    /\ pc = "columnPsm4"
    /\ callback' = "none"
    /\ UNCHANGED <<request, storeVars>>
    /\ \E outcome \in ProcessOutcomes :
          /\ runOcrPass(4, outcome)
          /\ IF outcome = "ok"
             THEN \E reading \in pageImage[4] :
                     /\ AfterSingleColumnPass(PassCandidate(reading))
                     /\ probe' = reading.probe
             ELSE probe' = "none"

\* the best intensive candidate replaces the best base candidate if it scores higher
SelectStronger ==
    /\ pc = "select"
    /\ Unobserved
    /\ LET sorted == SortByScoreDesc(intensiveCandidates)
           winner == IF sorted # << >> /\ sorted[1].score > bestCandidate[1].score
                     THEN sorted[1]
                     ELSE bestCandidate[1]
       IN  /\ intensiveCandidates' = sorted
           /\ bestCandidate' = Some(winner)
           /\ ocrText' = winner.text
           /\ pc' = "merge"
    /\ UNCHANGED <<options, fsVars, pdfDocument, totalPages, pageNumber, textContent,
                   nativeText, shouldRunOcr, pageImage, variants, variantIndex,
                   baseCandidates, pages, progressLog, completion, result, invocations>>

\* Math.min(85, Math.round(20 + (pageNumber / totalPages) * 65))
PageProgress(page, total) ==
    LET rounded == (41 * total + 130 * page) \div (2 * total)
    IN  IF rounded < 85 THEN rounded ELSE 85

\* a PageResult that always carries the number of the first page
PageResultUnnumbered(page, text, usedOcrFallback) ==
    [pageNumber |-> 1, text |-> text, usedOcrFallback |-> usedOcrFallback]

PageResult(page, text, usedOcrFallback) ==
    [pageNumber |-> page, text |-> text, usedOcrFallback |-> usedOcrFallback]

\* the merge of native and OCR text, the PageResult, the page's progress update, and
\* after the last page the progress update before the document is generated
MergePage ==
    /\ pc = "merge"
    /\ probe' = "none"
    /\ UNCHANGED <<request, storeVars>>
    /\ \E threwOfPage \in BOOLEAN, threwOfLoop \in BOOLEAN :
          LET mergedText == combineNativeAndOcrText(nativeText, ocrText)
              reported == safeProgressUpdate(progressLog,
                                             PageProgress(pageNumber, totalPages))
              last == ~(pageNumber + 1 <= totalPages)
              threw == threwOfPage \/ (last /\ threwOfLoop)
          IN  /\ callback' = CallbackOutcome(threw)
              /\ IF CallbackEscapes(threw)
                 THEN ThrowInTry("Error:callback") /\ UNCHANGED <<fsVars, invocations>>
                 ELSE /\ pages' = Append(pages,
                                         PageResult(pageNumber, mergedText, shouldRunOcr))
                      /\ pageNumber' = pageNumber + 1
                      /\ IF ~last
                         THEN progressLog' = reported /\ pc' = "getPage"
                         ELSE progressLog' = safeProgressUpdate(reported, 90)
                              /\ pc' = "serialize"
                      /\ pageImage' = NoImage
                      /\ variants' = << >>
                      /\ variantIndex' = 0
                      /\ baseCandidates' = << >>
                      /\ intensiveCandidates' = << >>
                      /\ bestCandidate' = None
                      /\ UNCHANGED <<options, fsVars, pdfDocument, totalPages, pageVars,
                                     completion, result, invocations>>

\* await createDocxBufferFromPages(...), the last progress update, the return
createDocxBufferFromPages ==
    /\ pc = "serialize"
    /\ probe' = "none"
    /\ UNCHANGED <<request, storeVars>>
    /\ \E packed \in BOOLEAN, threw \in BOOLEAN :
          IF ~packed
          THEN /\ ThrowInTry("DOCX_GENERATION_FAILED")
               /\ callback' = "none"
               /\ UNCHANGED <<fsVars, invocations>>
          ELSE IF CallbackEscapes(threw)
          THEN /\ ThrowInTry("Error:callback")
               /\ callback' = CallbackOutcome(threw)
               /\ UNCHANGED <<fsVars, invocations>>
          ELSE /\ completion' = Returned(DocxChildren(pages, options[1].includePageBreaks,
                                                      options[1].includeConfidenceMarkers))
               /\ callback' = CallbackOutcome(threw)
               /\ progressLog' = safeProgressUpdate(progressLog, 100)
               /\ pc' = "finally"
               /\ pages' = << >>
               /\ ClearPageLocals
               /\ UNCHANGED <<options, fsVars, pdfDocument, totalPages, pageNumber, result,
                              invocations>>

\* finally: await pdfDocument.destroy() if there is a document; an exception of
\* destroy() leaves the finally block at once
DestroyDocument ==
    /\ pc = "finally"
    /\ Unobserved
    /\ IF pdfDocument = "open"
       THEN \E destroyed \in BOOLEAN :
               IF destroyed
               THEN pdfDocument' = "destroyed" /\ pc' = "rm" /\ UNCHANGED result
               ELSE pdfDocument' = pdfDocument /\ pc' = "done" /\ result' = Raised("Error:pdfjs")
       ELSE pdfDocument' = pdfDocument /\ pc' = "rm" /\ UNCHANGED result
    /\ UNCHANGED <<options, fsVars, totalPages, pageNumber, pageVars, ocrVars, pages,
                   progressLog, completion, invocations>>

\* finally: await rm(tempDirectory, { recursive: true, force: true }); then the try
\* block's return value or exception reaches the caller
RemoveTempDirectory ==
    /\ pc = "rm"
    /\ Unobserved
    /\ tempDirectory' = "removed"
    /\ tempFiles' = {}
    /\ result' = completion
    /\ pc' = "done"
    /\ UNCHANGED <<options, pdfDocument, totalPages, pageNumber, pageVars, ocrVars, pages,
                   progressLog, completion, invocations>>

Next ==
    \/ Start
    \/ MakeTempDirectory
    \/ WritePdfCopy
    \/ ParsePdf
    \/ ReadPageText
    \/ renderPdfPageToPng
    \/ createOcrVariants
    \/ PageLayoutPass
    \/ UniformBlockPass
    \/ EvaluateBase
    \/ SparseTextPass
    \/ SingleColumnPass
    \/ SelectStronger
    \/ MergePage
    \/ createDocxBufferFromPages
    \/ DestroyDocument
    \/ RemoveTempDirectory

Spec == Init /\ [][Next]_vars

(***************************************************************************)
(* combineNativeAndOcrText as a function of its own: every pair of texts   *)
(* over a small alphabet, and one call on it.                              *)
(***************************************************************************)
MergeAlphabet == {"a", "b", " ", "\n"}

MergeTexts == UNION {[1..n -> MergeAlphabet] : n \in 0..MaxTextLen}

MergeInit ==
    /\ pc = "merge"
    /\ nativeText \in MergeTexts
    /\ ocrText \in MergeTexts
    /\ options = None
    /\ tempDirectory = "none"
    /\ tempFiles = {}
    /\ pdfDocument = "none"
    /\ totalPages = 1
    /\ pageNumber = 1
    /\ textContent = << >>
    /\ shouldRunOcr = FALSE
    /\ pageImage = NoImage
    /\ variants = << >>
    /\ variantIndex = 0
    /\ baseCandidates = << >>
    /\ intensiveCandidates = << >>
    /\ bestCandidate = None
    /\ pages = << >>
    /\ progressLog = << >>
    /\ completion = Pending
    /\ result = Pending
    /\ invocations = << >>
    /\ request = None
    /\ callback = "none"
    /\ probe = "none"
    /\ StoreIsEmpty

\* const mergedText = combineNativeAndOcrText({ nativeText, ocrText })
Merge ==
    /\ pc = "merge"
    /\ Unobserved
    /\ pages' = <<PageResult(pageNumber, combineNativeAndOcrText(nativeText, ocrText),
                             shouldRunOcr)>>
    /\ pc' = "merged"
    /\ UNCHANGED <<options, fsVars, pdfDocument, totalPages, pageNumber, pageVars,
                   ocrVars, progressLog, completion, result, invocations>>

MergeNext == Merge

MergeSpec == MergeInit /\ [][MergeNext]_vars

(***************************************************************************)
(* normalizeExtractOptions as a function of its own: the request carries   *)
(* the extractOptions argument, and one call normalizes it.                *)
(***************************************************************************)
\* minNativeCharsPerPage arguments in tenths: absent, 0, 3, 12.7, 5000, 5000.9, 5001,
\* -0.5 and -1
MinNativeCharsInputs ==
    {None, Some(0), Some(30), Some(127), Some(50000), Some(50009), Some(50010),
     Some(-5), Some(-10)}

ProfileInputs ==
    {None, Some("fast"), Some("FAST"), Some("quality"), Some("maximum"), Some("ultra"),
     Some("bogus")}

LanguagesInputs ==
    {None, Some(<< >>), Some(<<"eng">>), Some(<<" ENG ", "eng">>),
     Some(<<"ell", "eng", "ell">>), Some(<<"fra">>)}

OptionsInputs ==
    {Payload(p, m, l, None, None) :
        p \in ProfileInputs, m \in MinNativeCharsInputs, l \in LanguagesInputs}
    \cup ExtractOptionsInputs

OptionsInit ==
    /\ pc = "normalize"
    /\ \E extractOptions \in OptionsInputs :
          request = Some([file |-> "pdf", installed |-> RUNTIME_DEPS,
                          extractOptions |-> extractOptions])
    /\ options = None
    /\ tempDirectory = "none"
    /\ tempFiles = {}
    /\ pdfDocument = "none"
    /\ totalPages = 0
    /\ pageNumber = 0
    /\ textContent = << >>
    /\ nativeText = << >>
    /\ ocrText = << >>
    /\ shouldRunOcr = FALSE
    /\ pageImage = NoImage
    /\ variants = << >>
    /\ variantIndex = 0
    /\ baseCandidates = << >>
    /\ intensiveCandidates = << >>
    /\ bestCandidate = None
    /\ pages = << >>
    /\ progressLog = << >>
    /\ completion = Pending
    /\ result = Pending
    /\ invocations = << >>
    /\ callback = "none"
    /\ probe = "none"
    /\ StoreIsEmpty

\* const options = normalizeExtractOptions(extractOptions)
Normalize ==
    /\ pc = "normalize"
    /\ Unobserved
    /\ LET normalized == normalizeExtractOptions(request[1].extractOptions)
       IN  IF normalized.ok
           THEN /\ options' = Some(normalized.value)
                /\ pc' = "normalized"
                /\ UNCHANGED result
           ELSE /\ result' = Raised(normalized.code)
                /\ pc' = "done"
                /\ UNCHANGED options
    /\ UNCHANGED <<fsVars, pdfDocument, totalPages, pageNumber, pageVars, ocrVars, pages,
                   progressLog, completion, invocations>>

OptionsNext == Normalize

OptionsSpec == OptionsInit /\ [][OptionsNext]_vars

(***************************************************************************)
(* scoreOcrCandidate as a function of its own: two candidates without a    *)
(* confidence, over an alphabet of a letter, a symbol and a blank, and     *)
(* their evaluation.                                                       *)
(***************************************************************************)
ScoreAlphabet == {"a", "#", " "}

ScoreTexts == UNION {[1..n -> ScoreAlphabet] : n \in 0..(MaxTextLen + 1)}

ScoreInit ==
    /\ pc = "score"
    /\ \E left \in ScoreTexts, right \in ScoreTexts :
          baseCandidates = <<[text |-> left, confidence |-> None, score |-> 0],
                             [text |-> right, confidence |-> None, score |-> 0]>>
    /\ options = None
    /\ tempDirectory = "none"
    /\ tempFiles = {}
    /\ pdfDocument = "none"
    /\ totalPages = 0
    /\ pageNumber = 0
    /\ textContent = << >>
    /\ nativeText = << >>
    /\ ocrText = << >>
    /\ shouldRunOcr = FALSE
    /\ pageImage = NoImage
    /\ variants = << >>
    /\ variantIndex = 0
    /\ intensiveCandidates = << >>
    /\ bestCandidate = None
    /\ pages = << >>
    /\ progressLog = << >>
    /\ completion = Pending
    /\ result = Pending
    /\ invocations = << >>
    /\ request = None
    /\ callback = "none"
    /\ probe = "none"
    /\ StoreIsEmpty

\* qualityScore = scoreOcrCandidate(candidate.text) for both candidates
Score ==
    /\ pc = "score"
    /\ Unobserved
    /\ baseCandidates' =
          [i \in 1..Len(baseCandidates) |->
              [baseCandidates[i] EXCEPT !.score = scoreOcrCandidate(baseCandidates[i].text)]]
    /\ pc' = "scored"
    /\ UNCHANGED <<options, fsVars, pdfDocument, totalPages, pageNumber, pageVars,
                   pageImage, variants, variantIndex, intensiveCandidates, bestCandidate,
                   pages, progressLog, completion, result, invocations>>

ScoreNext == Score

ScoreSpec == ScoreInit /\ [][ScoreNext]_vars

(***************************************************************************)
(* The task progress store and the extract-to-docx route: the middleware   *)
(* initializeTaskProgress, the upload parser, the controller around        *)
(* extractPdfToDocxBuffer, the polling route and the expiry of tasks.      *)
(* Two requests are served, which may carry the same task id.  The run of  *)
(* extractPdfToDocxBuffer inside a request is seen from the controller:    *)
(* its progress updates, and its return or exception.                      *)
(***************************************************************************)
runVars == <<pc, options, tempDirectory, tempFiles, pdfDocument, totalPages, pageNumber,
             textContent, nativeText, shouldRunOcr, ocrText, pageImage, variants,
             variantIndex, baseCandidates, intensiveCandidates, bestCandidate, pages,
             progressLog, completion, result, invocations, request, callback, probe>>

\* an error object: its code (absent on errors that are no ApiError) and its message
ApiError(code, message) == [code |-> Some(code), message |-> message]
PlainError(message) == [code |-> None, message |-> message]

\* what the upload parser passes to next(): the fileFilter's and multer's errors
UploadErrors == {ApiError("UNSUPPORTED_FILE_TYPE", "Only PDF files are allowed")}

\* what the controller throws before its first progress update
EarlyControllerErrors == {ApiError("INVALID_INPUT", "Upload exactly one PDF file")}

\* what the controller and the synchronous start of extractPdfToDocxBuffer throw after it
LateControllerErrors == {ApiError("INVALID_EXTRACT_OPTIONS", "extractOptions must be valid JSON")}

\* what the promise of extractPdfToDocxBuffer rejects with
ExtractionErrors == {ApiError("OCR_FAILED", "OCR failed for page 1"), PlainError("pdf.js")}

\* the progress values extractPdfToDocxBuffer reports after its first one, for one page
LaterProgress == <<20, 85, 90, 100>>

Task(status, progress, error) ==
    [status |-> status, progress |-> progress, error |-> error, expired |-> FALSE]

\* Math.min(100, Math.max(0, parsed)) for an integer
clampProgress(value) == IF value < 0 THEN 0 ELSE IF value > 100 THEN 100 ELSE value

startTaskProgress(store, taskId) ==
    [store EXCEPT ![taskId] = Some(Task("running", 0, None))]

updateTaskProgress(store, taskId, progress) ==
    IF store[taskId] = None \/ store[taskId][1].status # "running" THEN store
    ELSE [store EXCEPT ![taskId] =
            Some([@[1] EXCEPT !.progress = clampProgress(progress), !.expired = FALSE])]

completeTaskProgress(store, taskId) ==
    IF store[taskId] = None THEN store
    ELSE [store EXCEPT ![taskId] =
            Some([@[1] EXCEPT !.status = "completed", !.progress = 100, !.expired = FALSE])]

failTaskProgress(store, taskId, error) ==
    IF store[taskId] = None \/ store[taskId][1].status = "completed" THEN store
    ELSE [store EXCEPT ![taskId] =
            Some([@[1] EXCEPT
                    !.status = "failed",
                    !.error = Some([code |-> IF error.code # None THEN error.code[1]
                                             ELSE "INTERNAL_SERVER_ERROR",
                                    message |-> IF error.message # "" THEN error.message
                                                ELSE "Unexpected error occurred"]),
                    !.expired = FALSE])]

\* the tasks with now - task.updatedAtMs > TASK_TTL_MS are deleted
cleanupExpiredTasks(store) ==
    [id \in TaskIds |-> IF store[id] # None /\ store[id][1].expired THEN None ELSE store[id]]

\* the request is at a position in which it awaits extractPdfToDocxBuffer
Extracting(r) == httpRequests[r].pc = "extracting"

\* the middleware of the route: the task id of the client, and the task started
initializeTaskProgress(r) ==
    /\ httpRequests[r].pc = "idle"
    /\ \E taskId \in TaskIds :
          /\ tasks' = startTaskProgress(tasks, taskId)
          /\ httpRequests' = [httpRequests EXCEPT ![r] = [@ EXCEPT !.pc = "upload",
                                                                   !.taskId = taskId]]
    /\ polled' = None
    /\ UNCHANGED runVars

\* pdfUpload.array('files'): the upload is parsed, or its error goes to the error handler
pdfUpload(r) ==
    /\ httpRequests[r].pc = "upload"
    /\ \/ httpRequests' = [httpRequests EXCEPT ![r] = [@ EXCEPT !.pc = "controller"]]
       \/ \E error \in UploadErrors :
             httpRequests' = [httpRequests EXCEPT ![r] = [@ EXCEPT !.pc = "failed",
                                                                  !.error = Some(error)]]
    /\ polled' = None
    /\ UNCHANGED <<tasks, runVars>>

\* the controller up to its await: the checks, the update of 5, the parse of the
\* options, and extractPdfToDocxBuffer up to its first await with the update of 15
extractPdfToDocxController(r) ==
    /\ httpRequests[r].pc = "controller"
    /\ LET taskId == httpRequests[r].taskId
           received == updateTaskProgress(tasks, taskId, 5)
       IN  \/ \E error \in EarlyControllerErrors :
                /\ tasks' = failTaskProgress(tasks, taskId, error)
                /\ httpRequests' = [httpRequests EXCEPT
                                      ![r] = [@ EXCEPT !.pc = "failed", !.error = Some(error)]]
           \/ \E error \in LateControllerErrors :
                /\ tasks' = failTaskProgress(received, taskId, error)
                /\ httpRequests' = [httpRequests EXCEPT
                                      ![r] = [@ EXCEPT !.pc = "failed", !.error = Some(error)]]
           \/ /\ tasks' = updateTaskProgress(received, taskId, 15)
              /\ httpRequests' = [httpRequests EXCEPT ![r] = [@ EXCEPT !.pc = "extracting"]]
    /\ polled' = None
    /\ UNCHANGED runVars

\* (progressUpdate) => { updateTaskProgress(taskId, progressUpdate) }
onProgress(r) ==
    /\ Extracting(r)
    /\ httpRequests[r].reported < Len(LaterProgress)
    /\ tasks' = updateTaskProgress(tasks, httpRequests[r].taskId,
                                   LaterProgress[httpRequests[r].reported + 1])
    /\ httpRequests' = [httpRequests EXCEPT ![r] = [@ EXCEPT !.reported = @ + 1]]
    /\ polled' = None
    /\ UNCHANGED runVars

\* catch (error) { failTaskProgress(taskId, ...); next(error) } after the await
extractionRejected(r) ==
    /\ Extracting(r)
    /\ \E error \in ExtractionErrors :
          /\ tasks' = failTaskProgress(tasks, httpRequests[r].taskId, error)
          /\ httpRequests' = [httpRequests EXCEPT
                                ![r] = [@ EXCEPT !.pc = "failed", !.error = Some(error)]]
    /\ polled' = None
    /\ UNCHANGED runVars

\* completeTaskProgress(taskId, ...) and the response after the await
extractionResolved(r) ==
    /\ Extracting(r)
    /\ httpRequests[r].reported = Len(LaterProgress)
    /\ tasks' = completeTaskProgress(tasks, httpRequests[r].taskId)
    /\ httpRequests' = [httpRequests EXCEPT ![r] = [@ EXCEPT !.pc = "responded"]]
    /\ polled' = None
    /\ UNCHANGED runVars

\* more than TASK_TTL_MS pass since the last write of a task.  Time passes while the
\* requests wait: not inside the turn that takes a request from its upload into the
\* controller, and the upload of a request ends within the server's request timeout
TimePasses(taskId) ==
    /\ tasks[taskId] # None
    /\ ~tasks[taskId][1].expired
    /\ \A r \in Requests :
          httpRequests[r].taskId = taskId => httpRequests[r].pc \notin {"upload", "controller"}
    /\ \A r \in Requests : httpRequests[r].pc # "controller"
    /\ tasks' = [tasks EXCEPT ![taskId] = Some([@[1] EXCEPT !.expired = TRUE])]
    /\ polled' = None
    /\ UNCHANGED <<httpRequests, runVars>>

\* setInterval(cleanupExpiredTasks, CLEANUP_INTERVAL_MS)
cleanupTimer ==
    /\ tasks' = cleanupExpiredTasks(tasks)
    /\ tasks' # tasks
    /\ polled' = None
    /\ UNCHANGED <<httpRequests, runVars>>

\* GET /tasks/:taskId: getTaskProgress(taskId), with its cleanup
getTaskProgress(taskId) ==
    /\ tasks' = cleanupExpiredTasks(tasks)
    /\ polled' = Some([taskId |-> taskId, task |-> tasks'[taskId]])
    /\ UNCHANGED <<httpRequests, runVars>>

TaskNext ==
    \/ \E r \in Requests : initializeTaskProgress(r)
    \/ \E r \in Requests : pdfUpload(r)
    \/ \E r \in Requests : extractPdfToDocxController(r)
    \/ \E r \in Requests : onProgress(r)
    \/ \E r \in Requests : extractionRejected(r)
    \/ \E r \in Requests : extractionResolved(r)
    \/ \E taskId \in TaskIds : TimePasses(taskId)
    \/ cleanupTimer
    \/ \E taskId \in TaskIds : getTaskProgress(taskId)

TaskSpec == Init /\ [][TaskNext]_vars

(***************************************************************************)
(* Vocabulary of the properties.                                           *)
(***************************************************************************)
Profile == options[1].processingProfile

\* the positions of the run at which the OCR decision of the current page is taken
\* and the page is not yet appended
DecidedPositions ==
    {"render", "variants", "basePsm3", "basePsm6", "evaluate", "sparsePsm11",
     "columnPsm4", "select", "merge"}

\* the locals of the loop body still describe the PageResult appended last
JustAppended ==
    /\ pc \in {"getPage", "serialize"}
    /\ Len(pages) >= 1
    /\ Len(pages) = pageNumber - 1

LastPage == pages[Len(pages)]

\* the native non-whitespace character count of the page read last is below the minimum
NativeTextIsSparse ==
    CompactLength(normalizeNativeTextContent(textContent)) < options[1].minNativeCharsPerPage

Rasterized(page) ==
    \E i \in 1..Len(invocations) :
        invocations[i].command = "pdftoppm" /\ invocations[i].pageNumber = page

OcrInvoked(page) ==
    \E i \in 1..Len(invocations) :
        invocations[i].command = "tesseract" /\ invocations[i].pageNumber = page

\* some external process of the run failed
SomeInvocationFailed == \E i \in 1..Len(invocations) : invocations[i].outcome # "ok"

(***************************************************************************)
(* C1: the rasterizer and the OCR engine run for a page if and only if the *)
(* page's native non-whitespace character count is strictly below          *)
(* options.minNativeCharsPerPage, and usedOcrFallback of the page's         *)
(* PageResult equals that condition: no external process ever runs for a   *)
(* page with enough native text, and a page that is appended after the     *)
(* decision for OCR has been rasterized and read by the OCR engine.         *)
(***************************************************************************)
C1_OcrIffNativeTextSparse ==
    /\ \A i \in 1..Len(invocations) : invocations[i].pageNumber \in 1..pageNumber
    /\ pc = "getPage" => ~Rasterized(pageNumber) /\ ~OcrInvoked(pageNumber)
    /\ pc \in DecidedPositions =>
          /\ shouldRunOcr = NativeTextIsSparse
          /\ (Rasterized(pageNumber) \/ OcrInvoked(pageNumber)) => NativeTextIsSparse
          /\ pc = "merge" =>
                (NativeTextIsSparse <=> Rasterized(pageNumber) /\ OcrInvoked(pageNumber))
    /\ JustAppended =>
          /\ LastPage.usedOcrFallback = NativeTextIsSparse
          /\ NativeTextIsSparse <=> Rasterized(Len(pages)) /\ OcrInvoked(Len(pages))
    /\ \A p \in 1..Len(pages) :
          /\ pages[p].usedOcrFallback <=> Rasterized(p) /\ OcrInvoked(p)
          /\ ~pages[p].usedOcrFallback => ~Rasterized(p) /\ ~OcrInvoked(p)

\* a run in which a scanned page got OCR and the next page, whose native text
\* has exactly minNativeCharsPerPage characters, did not
C1_Witness ==
    /\ pc = "serialize"
    /\ Len(pages) = 2
    /\ pages[1].usedOcrFallback /\ Rasterized(1) /\ OcrInvoked(1)
    /\ ~pages[2].usedOcrFallback /\ ~Rasterized(2) /\ ~OcrInvoked(2)
    /\ CompactLength(nativeText) = options[1].minNativeCharsPerPage

(***************************************************************************)
(* C2: when extractPdfToDocxBuffer returns or raises after it created the  *)
(* temporary directory, the directory no longer exists, whichever step     *)
(* failed (the release of the document handle included).                   *)
(***************************************************************************)
C2_TempDirectoryRemovedOnExit ==
    pc = "done" /\ tempDirectory # "none" => tempDirectory = "removed" /\ tempFiles = {}

(***************************************************************************)
(* C3: if the rasterizer or an OCR pass fails on page k, the run fails     *)
(* with code OCR_FAILED, returns no document, processes no page after k    *)
(* and delivers no result of the pages before k.                           *)
(***************************************************************************)
FailedPage == invocations[Len(invocations)].pageNumber

C3_OcrFailureFailsRunWithOcrFailed ==
    pc = "done" /\ SomeInvocationFailed =>
        /\ result = Raised("OCR_FAILED")
        /\ pageNumber = FailedPage
        /\ \A i \in 1..Len(invocations) : invocations[i].pageNumber <= FailedPage

(***************************************************************************)
(* C4 as claimed: a rasterization or OCR-pass failure on one page is       *)
(* classified OCR_FAILED and aborts only that page, every other page of    *)
(* the request is still processed.                                         *)
(***************************************************************************)
C4_FailureAbortsOnlyThatPage ==
    pc = "done" /\ SomeInvocationFailed =>
        /\ completion.code = "OCR_FAILED"
        /\ \A p \in 1..totalPages : p # FailedPage => p < pageNumber

(***************************************************************************)
(* C4 as amended: a rasterization or OCR-pass failure on one page is       *)
(* classified OCR_FAILED and aborts the whole request: the exception       *)
(* leaves the page loop, the run is in its cleanup or over, no page after  *)
(* the failing one is read, rasterized or recognized, no PageResult is     *)
(* kept and no document is returned.                                       *)
(***************************************************************************)
C4_FailureAbortsWholeRequest ==
    SomeInvocationFailed =>
        /\ completion = Raised("OCR_FAILED")
        /\ pc \in {"finally", "rm", "done"}
        /\ invocations[Len(invocations)].outcome # "ok"
        /\ pageNumber = FailedPage
        /\ \A i \in 1..Len(invocations) : invocations[i].pageNumber <= FailedPage
        /\ pages = << >>
        /\ result.kind # "returned"

\* the rasterizer failed on the first of two pages and the run is over
C4_Witness ==
    /\ pc = "done"
    /\ SomeInvocationFailed
    /\ invocations[Len(invocations)].command = "pdftoppm"
    /\ FailedPage = 1
    /\ totalPages = 2

(***************************************************************************)
(* C5: a failed external process is never retried.  Every step that runs   *)
(* an external process finds no failed invocation in the run so far, adds  *)
(* exactly one invocation, and never repeats an invocation (same command,  *)
(* page, variant and segmentation mode); an intensive pass (sparse text,   *)
(* single column) is started only when all base passes of the page         *)
(* succeeded and the best base score is below the profile's threshold.     *)
(***************************************************************************)
RECURSIVE MaxOf(_)
MaxOf(numbers) ==
    LET n == CHOOSE x \in numbers : TRUE
    IN  IF numbers = {n} THEN n
        ELSE LET m == MaxOf(numbers \ {n}) IN IF n > m THEN n ELSE m

Scores(candidates) == {candidates[i].score : i \in 1..Len(candidates)}

\* the acceptance thresholds of the profiles that escalate
Threshold(processingProfile) ==
    CASE processingProfile = "quality" -> 140
      [] processingProfile = "maximum" -> 180
      [] processingProfile = "ultra" -> 240

\* the best base score of the current page is below the threshold of the profile
BaseResultRejected ==
    /\ Profile # "fast"
    /\ baseCandidates # << >>
    /\ MaxOf(Scores(baseCandidates)) < Threshold(Profile)

\* the number of base passes of a page
BasePassCount == IF Profile = "fast" THEN 2 ELSE 4

SameRun(a, b) ==
    /\ a.command = b.command
    /\ a.pageNumber = b.pageNumber
    /\ a.variant = b.variant
    /\ a.psm = b.psm

NoRetryStep ==
    invocations' # invocations =>
        /\ ~SomeInvocationFailed
        /\ Len(invocations') = Len(invocations) + 1
        /\ SubSeq(invocations', 1, Len(invocations)) = invocations
        /\ LET started == invocations'[Len(invocations')]
           IN  /\ \A i \in 1..Len(invocations) : ~SameRun(invocations[i], started)
               /\ started.psm \in {11, 4} =>
                    /\ BaseResultRejected
                    /\ Len(baseCandidates) = BasePassCount
                    /\ Cardinality({i \in 1..Len(invocations) :
                            /\ invocations[i].pageNumber = started.pageNumber
                            /\ invocations[i].psm \in {3, 6}
                            /\ invocations[i].outcome = "ok"}) = BasePassCount

C5_FailedInvocationNeverRetried == [][NoRetryStep]_vars

\* an intensive pass failed after the base passes and an earlier intensive pass
\* succeeded, and the run is over
C5_Witness ==
    /\ pc = "done"
    /\ Len(invocations) >= 7
    /\ invocations[Len(invocations)].outcome # "ok"
    /\ invocations[Len(invocations)].psm = 4
    /\ invocations[Len(invocations) - 1].psm = 11

(***************************************************************************)
(* C6: intensive passes run for a page if and only if the profile is not   *)
(* fast and the best base candidate's score is strictly below the          *)
(* profile's threshold (quality 140, maximum 180, ultra 240); with fast no *)
(* intensive pass ever runs, and a best score at or above the threshold is *)
(* accepted without further passes.                                        *)
(***************************************************************************)
IntensiveInvoked(page) ==
    \E i \in 1..Len(invocations) :
        /\ invocations[i].command = "tesseract"
        /\ invocations[i].pageNumber = page
        /\ invocations[i].psm \in {11, 4}

\* runOcrOnImage has returned the OCR text of the current page
OcrReturned == pc = "merge" /\ shouldRunOcr

C6_IntensiveIffBelowThreshold ==
    /\ pc \in {"sparsePsm11", "columnPsm4", "select"} => BaseResultRejected
    /\ OcrReturned => (IntensiveInvoked(pageNumber) <=> BaseResultRejected)
    /\ options # None /\ Profile = "fast" =>
          \A i \in 1..Len(invocations) : invocations[i].psm \notin {11, 4}

\* with maximum, a best base score that quality accepts has been escalated
C6_Witness ==
    /\ OcrReturned
    /\ Profile = "maximum"
    /\ IntensiveInvoked(pageNumber)
    /\ MaxOf(Scores(baseCandidates)) >= Threshold("quality")

(***************************************************************************)
(* C7 as claimed: the decision to escalate does not depend on the          *)
(* confidence the engine reports; the boost round(confidence * 1.5) only   *)
(* enters the selection of the best candidate, so the decision is the one  *)
(* the texts of the base candidates alone determine.                       *)
(***************************************************************************)
TextScores(candidates) == {scoreOcrCandidate(candidates[i].text) : i \in 1..Len(candidates)}

C7_EscalationIgnoresConfidence ==
    OcrReturned =>
        (IntensiveInvoked(pageNumber) <=>
            resolveNeedsExtraOcrPasses(Profile, MaxOf(TextScores(baseCandidates))))

(***************************************************************************)
(* C7 as amended: the decision to escalate depends on the confidence the   *)
(* engine reports: the score of every candidate is the score of its text   *)
(* plus the boost round(confidence * 1.5) (no boost without confidence),   *)
(* and that score both selects the best candidate and decides the          *)
(* escalation, so a page escalates iff the profile is not fast and the     *)
(* best boosted base score is below the threshold.                         *)
(***************************************************************************)
Boost(confidence) == IF confidence = None THEN 0 ELSE (3 * confidence[1] + 1) \div 2

BoostedScores(candidates) ==
    {scoreOcrCandidate(candidates[i].text) + Boost(candidates[i].confidence) :
        i \in 1..Len(candidates)}

C7_EscalationUsesBoostedScore ==
    /\ \A i \in 1..Len(baseCandidates) :
          baseCandidates[i].score =
              scoreOcrCandidate(baseCandidates[i].text) + Boost(baseCandidates[i].confidence)
    /\ OcrReturned =>
          (IntensiveInvoked(pageNumber) <=>
              Profile # "fast" /\ MaxOf(BoostedScores(baseCandidates)) < Threshold(Profile))

\* the confidence decided: the texts alone score below the threshold, and the best
\* base candidate was accepted
C7_Witness ==
    /\ OcrReturned
    /\ Profile = "quality"
    /\ ~IntensiveInvoked(pageNumber)
    /\ MaxOf(TextScores(baseCandidates)) < Threshold("quality")

(***************************************************************************)
(* C8: with profile maximum or ultra and a best base score below the       *)
(* threshold, the intensive phase runs a sparse-text pass on every variant *)
(* of the page (3 variants for maximum, 4 for ultra), and for ultra also a *)
(* single-column pass on every variant.                                    *)
(***************************************************************************)
PassRan(page, variant, psm) ==
    \E i \in 1..Len(invocations) :
        invocations[i] = Invocation("tesseract", page, variant, psm, "ok")

C8_IntensivePassesOnEveryVariant ==
    OcrReturned /\ Profile \in {"maximum", "ultra"} /\ BaseResultRejected =>
        LET expected == IF Profile = "maximum"
                        THEN {"raw", "normalized", "threshold"}
                        ELSE {"raw", "normalized", "threshold", "sharpened"}
        IN  /\ {variants[i] : i \in 1..Len(variants)} = expected
            /\ Len(variants) = Cardinality(expected)
            /\ \A v \in expected : PassRan(pageNumber, v, 11)
            /\ \A v \in expected : PassRan(pageNumber, v, 4) <=> Profile = "ultra"
            /\ Len(intensiveCandidates) =
                  IF Profile = "ultra" THEN 2 * Len(variants) ELSE Len(variants)

\* ultra escalated, and the last variant got its single-column pass
C8_Witness ==
    /\ OcrReturned
    /\ Profile = "ultra"
    /\ PassRan(pageNumber, "sharpened", 11)
    /\ PassRan(pageNumber, "sharpened", 4)

(***************************************************************************)
(* C9: the OCR text runOcrOnImage returns for a page is the text of a      *)
(* candidate whose score is the maximum over all candidates of the page,   *)
(* base and intensive passes together.                                     *)
(***************************************************************************)
AllCandidates ==
    {baseCandidates[i] : i \in 1..Len(baseCandidates)}
    \cup {intensiveCandidates[i] : i \in 1..Len(intensiveCandidates)}

C9_WinnerHasMaximalScore ==
    OcrReturned =>
        \E winner \in AllCandidates :
            /\ winner.text = ocrText
            /\ \A other \in AllCandidates : other.score <= winner.score

\* an intensive candidate beat every base candidate, and not every intensive
\* candidate is the winner
C9_Witness ==
    /\ OcrReturned
    /\ \E winner \in {intensiveCandidates[i] : i \in 1..Len(intensiveCandidates)} :
          /\ winner.text = ocrText
          /\ \A i \in 1..Len(baseCandidates) : baseCandidates[i].score < winner.score
          /\ \E i \in 1..Len(intensiveCandidates) :
                intensiveCandidates[i].score < winner.score

(***************************************************************************)
(* C10: the text of a page on which OCR is skipped is exactly the          *)
(* normalized native text of that page.                                    *)
(***************************************************************************)
C10_SkippedPageKeepsNativeText ==
    JustAppended /\ ~shouldRunOcr =>
        /\ LastPage.text = normalizeNativeTextContent(textContent)
        /\ LastPage.text = normalizeWhitespace(LastPage.text)
        /\ LastPage.pageNumber = Len(pages)

\* a page with native text went into the result without OCR
C10_Witness ==
    /\ JustAppended
    /\ ~shouldRunOcr
    /\ ~OcrInvoked(Len(pages))
    /\ LastPage.text # << >>

(***************************************************************************)
(* C11: combineNativeAndOcrText(N, O) is empty when both are empty, the    *)
(* other one when exactly one is empty, O when O contains N, otherwise N   *)
(* when N contains O, otherwise the normalization of N, a blank line and   *)
(* O concatenated.                                                         *)
(***************************************************************************)
Merged == pc = "merged" /\ Len(pages) = 1

\* needle occurs in haystack as a contiguous piece
IsSubstring(needle, haystack) ==
    \E i \in 1..(Len(haystack) + 1) :
        \E j \in (i - 1)..Len(haystack) : SubSeq(haystack, i, j) = needle

C11_MergeCases ==
    Merged =>
        LET N == nativeText
            O == ocrText
            R == pages[1].text
        IN  /\ N = << >> /\ O = << >> => R = << >>
            /\ N = << >> /\ O # << >> => R = O
            /\ N # << >> /\ O = << >> => R = N
            /\ N # << >> /\ O # << >> /\ IsSubstring(N, O) => R = O
            /\ N # << >> /\ O # << >> /\ ~IsSubstring(N, O) /\ IsSubstring(O, N) => R = N
            /\ N # << >> /\ O # << >> /\ ~IsSubstring(N, O) /\ ~IsSubstring(O, N) =>
                  R = normalizeWhitespace(N \o <<"\n", "\n">> \o O)

\* two texts, none inside the other, whose concatenation the normalization changed
C11_Witness ==
    /\ Merged
    /\ nativeText # << >> /\ ocrText # << >>
    /\ ~IsSubstring(nativeText, ocrText) /\ ~IsSubstring(ocrText, nativeText)
    /\ pages[1].text # nativeText \o <<"\n", "\n">> \o ocrText
    /\ pages[1].text # << >>

OcrPositions ==
    {"render", "variants", "basePsm3", "basePsm6", "evaluate", "sparsePsm11",
     "columnPsm4", "select"}

SequentialStep ==
    /\ Len(invocations') <= Len(invocations) + 1
    /\ invocations' # invocations =>
          LET started == invocations'[Len(invocations')]
          IN  /\ SubSeq(invocations', 1, Len(invocations)) = invocations
              /\ pc \in OcrPositions
              /\ started.pageNumber = pageNumber
              /\ Len(pages) = pageNumber - 1
              /\ pageNumber' = pageNumber
              /\ \A i \in 1..Len(invocations) :
                    invocations[i].pageNumber <= started.pageNumber
    /\ pc \in OcrPositions => Len(pages) = pageNumber - 1
    /\ pageNumber' # pageNumber =>
          /\ pageNumber' = pageNumber + 1
          /\ pc \in {"parse", "merge"}
          /\ pc' \in {"getPage", "serialize"}
          /\ Len(pages') = pageNumber
          /\ baseCandidates' = << >> /\ intensiveCandidates' = << >>
          /\ variants' = << >> /\ pageImage' = NoImage
          /\ invocations' = invocations

C13_PagesStrictlySequential == [][SequentialStep]_vars

\* the OCR engine ran for the first page and then for the second page
C13_Witness ==
    /\ pc \in OcrPositions
    /\ pageNumber = 2
    /\ Len(pages) = 1
    /\ OcrInvoked(1)
    /\ OcrInvoked(2)
    /\ IntensiveInvoked(1)

(***************************************************************************)
(* C14: a successful run has exactly one PageResult per page of the PDF.   *)
(* The PageResults carry the numbers 1, 2, ... in this order, the loop     *)
(* ends with totalPages of them, the returned document has one page        *)
(* heading per page in ascending order, and a PageResult never changes     *)
(* once it is appended.                                                    *)
(***************************************************************************)
\* the page numbers of the page headings of a document, in order
RECURSIVE HeadingNumbers(_)
HeadingNumbers(children) ==
    IF children = << >> THEN << >>
    ELSE (IF children[1].kind = "heading" THEN <<children[1].pageNumber>> ELSE << >>)
         \o HeadingNumbers(Tail(children))

OnePageResultPerPage ==
    /\ Len(pages) <= totalPages
    /\ \A i \in 1..Len(pages) : pages[i].pageNumber = i
    /\ pc = "serialize" => Len(pages) = totalPages /\ totalPages >= 1
    /\ completion.kind = "returned" =>
          HeadingNumbers(completion.docx) = [i \in 1..totalPages |-> i]
    /\ result.kind = "returned" =>
          /\ result = completion
          /\ Len(HeadingNumbers(result.docx)) = totalPages

PageResultsKept ==
    \/ pages' = pages
    \/ Len(pages') = Len(pages) + 1 /\ SubSeq(pages', 1, Len(pages)) = pages
    \/ pages' = << >> /\ pc' = "finally"

C14_OnePageResultPerPage == []OnePageResultPerPage /\ [][PageResultsKept]_vars

\* a document of two pages was returned
C14_Witness ==
    /\ pc = "done"
    /\ result.kind = "returned"
    /\ totalPages = 2
    /\ HeadingNumbers(result.docx) = <<1, 2>>

(***************************************************************************)
(* C15: a progress callback that throws neither blocks nor aborts the run. *)
(* A step in which onProgress throws has the effect of the same step with  *)
(* a callback that returns: the payload was handed over, no exception is   *)
(* pending, the run is at the position that follows, the result of the     *)
(* step (options, page count, PageResult, document) is there, and no       *)
(* external process was started or skipped.                                *)
(***************************************************************************)
ThrowingCallbackStep ==
    callback' = "threw" =>
        /\ result' = Pending
        /\ completion'.kind # "raised"
        /\ invocations' = invocations
        /\ CASE pc = "start" ->
                  /\ pc' = "mkdtemp"
                  /\ options' # None
                  /\ progressLog' = Append(progressLog, 15)
             [] pc = "parse" ->
                  /\ pc' = "getPage"
                  /\ pageNumber' = 1 /\ totalPages' >= 1
                  /\ progressLog' = Append(progressLog, 20)
             [] pc = "merge" ->
                  /\ pages' = Append(pages, PageResult(pageNumber,
                                 combineNativeAndOcrText(nativeText, ocrText), shouldRunOcr))
                  /\ pageNumber' = pageNumber + 1
                  /\ IF pageNumber < totalPages
                     THEN /\ pc' = "getPage"
                          /\ progressLog' =
                                Append(progressLog, PageProgress(pageNumber, totalPages))
                     ELSE /\ pc' = "serialize"
                          /\ progressLog' = progressLog
                                \o <<PageProgress(pageNumber, totalPages), 90>>
             [] pc = "serialize" ->
                  /\ pc' = "finally"
                  /\ completion'.kind = "returned"
                  /\ HeadingNumbers(completion'.docx) = [i \in 1..totalPages |-> i]
                  /\ progressLog' = Append(progressLog, 100)
             [] OTHER -> FALSE

C15_ThrowingCallbackIsSwallowed == [][ThrowingCallbackStep]_vars

\* the callback threw on the last update, and the document is returned all the same
C15_Witness ==
    /\ callback = "threw"
    /\ pc = "finally"
    /\ completion.kind = "returned"
    /\ progressLog[Len(progressLog)] = 100

(***************************************************************************)
(* C16: a failure of the confidence probe of an OCR pass fails neither the *)
(* pass nor the request.  In a step whose probe fails the text run is      *)
(* logged as successful, no exception is pending, the pass appends its     *)
(* text as a candidate without confidence whose score is the score of the  *)
(* text alone, and the run goes on to the next pass or to the evaluation.  *)
(***************************************************************************)
PassPositions == {"basePsm3", "basePsm6", "sparsePsm11", "columnPsm4"}

FailedProbeStep ==
    probe' = "failed" =>
        LET before == IF pc \in {"basePsm3", "basePsm6"}
                      THEN baseCandidates ELSE intensiveCandidates
            after == IF pc \in {"basePsm3", "basePsm6"}
                     THEN baseCandidates' ELSE intensiveCandidates'
            candidate == after[Len(after)]
            pass == invocations'[Len(invocations')]
        IN  /\ pc \in PassPositions
            /\ Len(invocations') = Len(invocations) + 1
            /\ pass.command = "tesseract" /\ pass.outcome = "ok"
            /\ pass.pageNumber = pageNumber
            /\ completion' = Pending /\ result' = Pending
            /\ pc' \in PassPositions \cup {"evaluate", "select"}
            /\ after = Append(before, candidate)
            /\ candidate.confidence = None
            /\ candidate.score = scoreOcrCandidate(candidate.text)
            /\ \E reading \in pageImage[pass.psm] :
                  candidate.text = normalizeWhitespace(reading.raw)
            /\ pages' = pages

C16_FailedProbeLeavesConfidenceAbsent == [][FailedProbeStep]_vars

\* the probe of a base pass failed, its text is a candidate, the run goes on
C16_Witness ==
    /\ probe = "failed"
    /\ pc \in PassPositions \cup {"evaluate"}
    /\ baseCandidates # << >>
    /\ baseCandidates[Len(baseCandidates)].confidence = None
    /\ baseCandidates[Len(baseCandidates)].text # << >>
    /\ completion = Pending

(***************************************************************************)
(* C17 as claimed: when a required OCR binary is absent, the run fails     *)
(* with OCR_RUNTIME_MISSING before any page work: no temporary directory,  *)
(* no parsed document, no rasterized or recognized page.                   *)
(***************************************************************************)
BinariesAbsent == request # None /\ ~(RUNTIME_DEPS \subseteq request[1].installed)

NoWorkDone ==
    /\ tempDirectory = "none" /\ tempFiles = {}
    /\ pdfDocument = "none" /\ totalPages = 0
    /\ invocations = << >>
    /\ pages = << >>
    /\ progressLog = << >>

C17_MissingRuntimeFailsFirst ==
    BinariesAbsent =>
        /\ pc = "done"
        /\ result = Raised("OCR_RUNTIME_MISSING")
        /\ NoWorkDone

(***************************************************************************)
(* C17 as amended: the file argument is validated before the runtime is    *)
(* inspected.  When a required OCR binary is absent, the run fails before  *)
(* any work: with OCR_RUNTIME_MISSING for a non-empty upload (whatever the *)
(* options are), with INVALID_INPUT for a missing file and with EMPTY_FILE *)
(* for an empty one; and OCR_RUNTIME_MISSING is raised in no other case.   *)
(***************************************************************************)
C17_MissingRuntimeFailsAfterValidation ==
    /\ BinariesAbsent =>
          /\ pc = "done"
          /\ NoWorkDone
          /\ result = Raised(CASE request[1].file = "missing" -> "INVALID_INPUT"
                               [] request[1].file = "empty" -> "EMPTY_FILE"
                               [] OTHER -> "OCR_RUNTIME_MISSING")
    /\ (result.code = "OCR_RUNTIME_MISSING" \/ completion.code = "OCR_RUNTIME_MISSING") =>
          BinariesAbsent /\ request[1].file = "pdf"

\* a PDF upload on a host with tesseract but without pdftoppm
C17_Witness ==
    /\ pc = "done"
    /\ request = Some([file |-> "pdf", installed |-> {"tesseract"}])
    /\ result = Raised("OCR_RUNTIME_MISSING")
    /\ tempDirectory = "none"

(***************************************************************************)
(* C18: when the PDF cannot be parsed, or the parsed document has no page, *)
(* the run fails with PDF_PARSE_FAILED, no page is rasterized or           *)
(* recognized, and no temporary directory or file of the request exists    *)
(* after the failure.                                                      *)
(***************************************************************************)
ParseFailed == completion = Raised("PDF_PARSE_FAILED")

C18_ParseFailureLeavesNothing ==
    pc = "done" /\ ParseFailed =>
        /\ result = Raised("PDF_PARSE_FAILED")
        /\ invocations = << >>
        /\ tempDirectory = "removed"
        /\ tempFiles = {}

(***************************************************************************)
(* C19: when the serialization of the document fails, the run fails with   *)
(* DOCX_GENERATION_FAILED, returns no document, and the progress update    *)
(* of 100 is never made.                                                   *)
(***************************************************************************)
SerializationFailed == completion = Raised("DOCX_GENERATION_FAILED")

C19_SerializationFailureFailsRun ==
    /\ SerializationFailed =>
          \A i \in 1..Len(progressLog) : progressLog[i] # 100
    /\ pc = "done" /\ SerializationFailed =>
          result = Raised("DOCX_GENERATION_FAILED")

(***************************************************************************)
(* C20: every failing run raises a typed error with a code of the error    *)
(* taxonomy, whichever step failed.                                        *)
(***************************************************************************)
C20_EveryFailureIsTyped ==
    pc = "done" /\ result.kind = "raised" => result.code \in ApiErrorCodes

(***************************************************************************)
(* C22: normalizeExtractOptions either raises INVALID_EXTRACT_OPTIONS or   *)
(* returns options whose languages are a non-empty duplicate-free sequence *)
(* over {eng, ell}, whose processingProfile is one of fast, quality,       *)
(* maximum, ultra, and whose minNativeCharsPerPage is an integer in        *)
(* 0..5000 that equals the supplied value when one is given and otherwise  *)
(* the default of the profile (24, 48, 72, 96).                            *)
(***************************************************************************)
Supplied == request[1].extractOptions

DuplicateFree(s) == \A i, j \in 1..Len(s) : s[i] = s[j] => i = j

ProfileDefault(processingProfile) ==
    CASE processingProfile = "fast" -> 24
      [] processingProfile = "quality" -> 48
      [] processingProfile = "maximum" -> 72
      [] processingProfile = "ultra" -> 96

C22_NormalizedOptionsAreValid ==
    /\ pc = "done" => result = Raised("INVALID_EXTRACT_OPTIONS")
    /\ pc = "normalized" =>
          /\ options[1].languages # << >>
          /\ DuplicateFree(options[1].languages)
          /\ \A i \in 1..Len(options[1].languages) :
                options[1].languages[i] \in {"eng", "ell"}
          /\ options[1].processingProfile \in {"fast", "quality", "maximum", "ultra"}
          /\ options[1].minNativeCharsPerPage \in 0..5000
          /\ IF Supplied.minNativeCharsPerPage # None
             THEN 10 * options[1].minNativeCharsPerPage = Supplied.minNativeCharsPerPage[1]
             ELSE options[1].minNativeCharsPerPage
                    = ProfileDefault(options[1].processingProfile)

(***************************************************************************)
(* C23: the score of a text is compactLength + 3 * wordCount - penalty,    *)
(* where compactLength counts the non-whitespace characters, wordCount the *)
(* whitespace-delimited tokens, and penalty is 40 exactly when the share   *)
(* of alphanumeric characters in compactLength is below 0.45 (0 for an     *)
(* empty text) and 0 otherwise; of two texts with the same penalty, the    *)
(* one with at least the compact length and at least the word count of     *)
(* the other scores at least as high.                                      *)
(***************************************************************************)
Letters(text) == {i \in 1..Len(text) : text[i] = "a"}
Solid(text) == {i \in 1..Len(text) : text[i] # " "}
WordEnds(text) == {i \in Solid(text) : i = Len(text) \/ text[i + 1] = " "}

PenaltyOf(text) ==
    IF Solid(text) = {} \/ 100 * Cardinality(Letters(text)) < 45 * Cardinality(Solid(text))
    THEN 40 ELSE 0

Scored == pc = "scored"

C23_ScoreIsMonotonic ==
    Scored =>
        /\ \A i \in 1..2 :
              LET text == baseCandidates[i].text
              IN  baseCandidates[i].score
                    = Cardinality(Solid(text)) + 3 * Cardinality(WordEnds(text))
                      - PenaltyOf(text)
        /\ \A i, j \in 1..2 :
              LET more == baseCandidates[i].text
                  less == baseCandidates[j].text
              IN  /\ PenaltyOf(more) = PenaltyOf(less)
                  /\ Cardinality(Solid(more)) >= Cardinality(Solid(less))
                  /\ Cardinality(WordEnds(more)) >= Cardinality(WordEnds(less))
                  => baseCandidates[i].score >= baseCandidates[j].score

\* a penalized text of three characters and one word next to an unpenalized text of
\* two words that scores higher
C23_Witness ==
    /\ Scored
    /\ baseCandidates[1].text = <<"a", "#", "#">>
    /\ baseCandidates[1].score = 3 + 3 - 40
    /\ baseCandidates[2].text = <<"a", " ", "a">>
    /\ baseCandidates[2].score = 2 + 6

(***************************************************************************)
(* C24: for a page that needs OCR the controller goes base-pass, evaluate, *)
(* then accept or intensive-pass, evaluate, accept.  The base phase runs   *)
(* the page-layout pass (psm 3) and, for every profile but fast, the       *)
(* uniform-block pass (psm 6) on the raw and then on the normalized        *)
(* variant and on no other; all the base passes have completed when the    *)
(* first intensive pass starts; the intensive phase is entered at most     *)
(* once for a page; and the evaluation after it accepts.                   *)
(***************************************************************************)
BasePositions == {"basePsm3", "basePsm6"}
IntensivePositions == {"sparsePsm11", "columnPsm4"}

Pass(variant, psm) == [variant |-> variant, psm |-> psm]

\* the OCR passes run for a page so far, in order
PagePasses(history, page) ==
    LET ran == SelectIdx(history, {i \in 1..Len(history) :
                                    /\ history[i].command = "tesseract"
                                    /\ history[i].pageNumber = page})
    IN  [i \in 1..Len(ran) |-> Pass(ran[i].variant, ran[i].psm)]

ExpectedBasePasses ==
    IF Profile = "fast"
    THEN <<Pass("raw", 3), Pass("normalized", 3)>>
    ELSE <<Pass("raw", 3), Pass("raw", 6), Pass("normalized", 3), Pass("normalized", 6)>>

IsPrefix(s, t) == Len(s) <= Len(t) /\ SubSeq(t, 1, Len(s)) = s

EscalationStep ==
    /\ pc = "variants" => pc' \in {"basePsm3", "finally"}
    /\ pc \in BasePositions =>
          /\ pc' \in BasePositions \cup {"evaluate", "finally"}
          /\ IsPrefix(PagePasses(invocations', pageNumber), ExpectedBasePasses)
          /\ pc' = "evaluate" => PagePasses(invocations', pageNumber) = ExpectedBasePasses
    /\ pc = "evaluate" =>
          /\ pc' \in {"merge", "sparsePsm11"}
          /\ PagePasses(invocations, pageNumber) = ExpectedBasePasses
          /\ ~SomeInvocationFailed
    /\ pc \in IntensivePositions =>
          /\ pc' \in IntensivePositions \cup {"select", "finally"}
          /\ IsPrefix(ExpectedBasePasses, PagePasses(invocations, pageNumber))
          /\ LET passes == PagePasses(invocations', pageNumber)
             IN  \A i \in (Len(ExpectedBasePasses) + 1)..Len(passes) :
                    passes[i].psm \in {11, 4}
    /\ pc = "select" => pc' = "merge"
    /\ pc' = "sparsePsm11" /\ pc \notin IntensivePositions =>
          pc = "evaluate" /\ ~IntensiveInvoked(pageNumber)
    /\ pc' \in BasePositions /\ pc \notin BasePositions => pc = "variants"

C24_EscalationOrder == [][EscalationStep]_vars

\* a page of the profile quality accepted after the intensive phase: four base passes
\* and two sparse-text passes
C24_Witness ==
    /\ pc = "merge"
    /\ shouldRunOcr
    /\ Profile = "quality"
    /\ PagePasses(invocations, pageNumber)
          = ExpectedBasePasses \o <<Pass("raw", 11), Pass("normalized", 11)>>

(***************************************************************************)
(* C25: the OCR passes of a page are at most 2 for fast, 6 for quality,    *)
(* 7 for maximum and 12 for ultra, and exactly 2 (fast) or 4 (the other    *)
(* profiles) when the base result is accepted; a pass runs the OCR engine  *)
(* at most twice (the text run, and the confidence probe after a text run  *)
(* that succeeded); the rasterizer runs at most once for a page.           *)
(***************************************************************************)
MaxPassCount ==
    CASE Profile = "fast" -> 2
      [] Profile = "quality" -> 6
      [] Profile = "maximum" -> 7
      [] Profile = "ultra" -> 12

RasterizerRuns(page) ==
    Cardinality({i \in 1..Len(invocations) :
                    invocations[i].command = "pdftoppm" /\ invocations[i].pageNumber = page})

\* the engine runs of a pass: the text run, and the probe when the text was read
EngineRuns(pass) == IF pass.outcome = "ok" THEN 2 ELSE 1

PassesBounded ==
    \A page \in 1..MaxPages :
        /\ RasterizerRuns(page) <= 1
        /\ options # None => Len(PagePasses(invocations, page)) <= MaxPassCount
        /\ \A i \in 1..Len(invocations) :
              invocations[i].command = "tesseract" => EngineRuns(invocations[i]) \in 1..2
        /\ options # None /\ (pageNumber > page \/ (pageNumber = page /\ OcrReturned))
             /\ OcrInvoked(page) /\ ~IntensiveInvoked(page)
             => Len(PagePasses(invocations, page)) = BasePassCount

\* a pass step runs the probe only after its text run, and no step runs two passes
PassStep ==
    /\ Len(invocations') <= Len(invocations) + 1
    /\ probe' # "none" =>
          /\ Len(invocations') = Len(invocations) + 1
          /\ invocations'[Len(invocations')].command = "tesseract"
          /\ invocations'[Len(invocations')].outcome = "ok"

C25_PassesBoundedByProfile == []PassesBounded /\ [][PassStep]_vars

\* a page of the profile ultra after its twelve passes, and a page of the profile
\* maximum accepted after its four base passes
C25_Witness ==
    /\ OcrReturned
    /\ Profile = "ultra"
    /\ Len(PagePasses(invocations, pageNumber)) = 12
    /\ RasterizerRuns(pageNumber) = 1

C25_WitnessAccepted ==
    /\ OcrReturned
    /\ Profile = "maximum"
    /\ ~IntensiveInvoked(pageNumber)
    /\ Len(PagePasses(invocations, pageNumber)) = 4

(***************************************************************************)
(* C30: within one page no (variant, page segmentation mode) combination   *)
(* is run twice; the base passes use the modes 3 and 6 only and the        *)
(* intensive passes the modes 11 and 4 only; so every pass of a page       *)
(* writes an output file of its own in the temporary directory, and none   *)
(* overwrites the output of another.                                       *)
(***************************************************************************)
OutputFiles(page) == {f \in tempFiles : f.kind = "txt" /\ f.pageNumber = page}

DistinctPasses ==
    options # None =>
    \A page \in 1..MaxPages :
        LET passes == PagePasses(invocations, page)
        IN  /\ \A i, j \in 1..Len(passes) : passes[i] = passes[j] => i = j
            /\ \A i \in 1..Len(passes) :
                  passes[i].psm \in (IF i <= BasePassCount THEN {3, 6} ELSE {11, 4})

\* a pass adds one file to the directory that was not there
OutputFileStep ==
    /\ Len(invocations') = Len(invocations) + 1
    /\ invocations'[Len(invocations')].command = "tesseract"
    /\ invocations'[Len(invocations')].outcome = "ok"
    => LET pass == invocations'[Len(invocations')]
           output == File("txt", pass.pageNumber, pass.variant, pass.psm)
       IN  /\ output \notin tempFiles
           /\ tempFiles' = tempFiles \cup {output}

C30_PassesWriteDistinctFiles ==
    []DistinctPasses /\ [][OutputFileStep]_vars

\* the twelve passes of a page of the profile ultra have left twelve output files
C30_Witness ==
    /\ pc = "merge"
    /\ Profile = "ultra"
    /\ Len(PagePasses(invocations, pageNumber)) = 12
    /\ Cardinality(OutputFiles(pageNumber)) = 12

(***************************************************************************)
(* C26: the progress values a run hands to its callback are 15, 20, one    *)
(* value in 20..85 for every page in page order, 90 and 100: a             *)
(* non-decreasing sequence within 0..100; 100 is reported only after the   *)
(* document was generated, and a run that fails has never reported 100.    *)
(***************************************************************************)
Reported(value) == \E i \in 1..Len(progressLog) : progressLog[i] = value

ProgressIsMonotonic ==
    /\ \A i \in 1..Len(progressLog) : progressLog[i] \in 0..100
    /\ \A i, j \in 1..Len(progressLog) : i <= j => progressLog[i] <= progressLog[j]
    /\ Len(progressLog) >= 1 => progressLog[1] = 15
    /\ Len(progressLog) >= 2 => progressLog[2] = 20
    /\ Len(progressLog) <= totalPages + 4
    /\ \A i \in 3..Len(progressLog) :
          /\ i <= totalPages + 2 => progressLog[i] \in 20..85
          /\ i = totalPages + 3 => progressLog[i] = 90
          /\ i = totalPages + 4 => progressLog[i] = 100
    /\ Reported(100) => completion.kind = "returned"

Failed == pc = "done" /\ result.kind = "raised"

C26_ProgressMonotonicAndFinal ==
    /\ ProgressIsMonotonic
    /\ Failed => ~Reported(100)

(***************************************************************************)
(* C27: in the document assembled from P page results, the page-break      *)
(* elements are P - 1 when includePageBreaks is true, one right before the *)
(* heading of every page but the first, and none otherwise; the section of *)
(* a page carries the OCR fallback marker if and only if                   *)
(* includeConfidenceMarkers is true and the page's usedOcrFallback is      *)
(* true; a page whose text is empty gets exactly one fallback paragraph    *)
(* and no text paragraph.                                                  *)
(***************************************************************************)
ElementsOf(children, kind, page) ==
    {i \in 1..Len(children) : children[i].kind = kind /\ children[i].pageNumber = page}

ElementsOfKind(children, kind) == {i \in 1..Len(children) : children[i].kind = kind}

AssembledAsSpecified(children, results, includePageBreaks, includeConfidenceMarkers) ==
    /\ Cardinality(ElementsOfKind(children, "pageBreak"))
          = (IF includePageBreaks THEN Len(results) - 1 ELSE 0)
    /\ \A i \in ElementsOfKind(children, "pageBreak") :
          /\ children[i].pageNumber > 1
          /\ children[i + 1].kind = "heading"
          /\ children[i + 1].pageNumber = children[i].pageNumber
    /\ \A p \in 1..Len(results) :
          /\ Cardinality(ElementsOf(children, "heading", p)) = 1
          /\ Cardinality(ElementsOf(children, "pageBreak", p))
                = (IF includePageBreaks /\ p > 1 THEN 1 ELSE 0)
          /\ Cardinality(ElementsOf(children, "marker", p))
                = (IF includeConfidenceMarkers /\ results[p].usedOcrFallback THEN 1 ELSE 0)
          /\ results[p].text = << >> =>
                /\ Cardinality(ElementsOf(children, "fallback", p)) = 1
                /\ ElementsOf(children, "text", p) = {}
          /\ results[p].text # << >> =>
                /\ ElementsOf(children, "fallback", p) = {}
                /\ ElementsOf(children, "text", p) # {}

AssemblyStep ==
    pc = "serialize" /\ completion'.kind = "returned" =>
        AssembledAsSpecified(completion'.docx, pages, options[1].includePageBreaks,
                             options[1].includeConfidenceMarkers)

C27_DocumentAssembly == [][AssemblyStep]_vars

\* a document of two pages with a page break and the marker of an OCR page
C27_Witness ==
    /\ completion.kind = "returned"
    /\ Cardinality(ElementsOfKind(completion.docx, "heading")) = 2
    /\ Cardinality(ElementsOfKind(completion.docx, "pageBreak")) = 1
    /\ ElementsOfKind(completion.docx, "marker") # {}

\* a document with the fallback paragraph of an empty page
C27_WitnessEmptyPage ==
    /\ completion.kind = "returned"
    /\ ElementsOfKind(completion.docx, "fallback") # {}

(***************************************************************************)
(* C21: whenever an extract-to-docx request ends in failure, the task of   *)
(* the request is in the store with status failed and with an error whose  *)
(* code and message are the code and message of the error raised.          *)
(***************************************************************************)
EndsInFailure(r) == httpRequests[r].pc # "failed" /\ httpRequests'[r].pc = "failed"

FailureRecordedStep ==
    \A r \in Requests :
        EndsInFailure(r) =>
            LET task == tasks'[httpRequests'[r].taskId]
                raised == httpRequests'[r].error[1]
            IN  /\ task # None
                /\ task[1].status = "failed"
                /\ task[1].error # None
                /\ Some(task[1].error[1].code) = raised.code
                /\ task[1].error[1].message = raised.message

InFlight(r) == httpRequests[r].pc \in {"upload", "controller", "extracting"}

TaskOfRequestFound == \A r \in Requests : InFlight(r) => tasks[httpRequests[r].taskId] # None

TaskCreatedFirstStep ==
    /\ \A r \in Requests :
          httpRequests[r].pc = "idle" /\ httpRequests'[r].pc # "idle" =>
              /\ httpRequests'[r].pc = "upload"
              /\ tasks'[httpRequests'[r].taskId] = Some(Task("running", 0, None))
    /\ polled' # None =>
          \A r \in Requests :
              InFlight(r) /\ httpRequests[r].taskId = polled'[1].taskId
                  => polled'[1].task # None

C28_TaskCreatedBeforeUse == []TaskOfRequestFound /\ [][TaskCreatedFirstStep]_vars

(***************************************************************************)
(* C29: the statuses completed and failed are absorbing: once a task has   *)
(* one of them, no call of updateTaskProgress, completeTaskProgress or     *)
(* failTaskProgress changes its status; only startTaskProgress with the    *)
(* same id (status running again) or the expiry of the task (no record)    *)
(* replaces it, also when two requests share a task id.                    *)
(***************************************************************************)
TerminalStatusKeptStep ==
    \A taskId \in TaskIds :
        tasks[taskId] # None /\ tasks[taskId][1].status \in {"completed", "failed"} =>
            \/ tasks'[taskId] = None
            \/ tasks'[taskId][1].status = tasks[taskId][1].status
            \/ tasks'[taskId] = Some(Task("running", 0, None))

C29_TerminalStatusIsAbsorbing == [][TerminalStatusKeptStep]_vars
====
